---- MODULE Spec2Model ----
(***************************************************************************)
(* Assembler (compile.rs) and simulator (simulator.rs) of the P16 toolchain *)
(* as state machines.  The assembler consumes one source line per step; the *)
(* simulator executes one instruction per step.  Handlers are operators on  *)
(* the record of the object they belong to and keep the names of the Rust   *)
(* functions they model.                                                    *)
(***************************************************************************)
EXTENDS Integers, Sequences, FiniteSets, TLC

VARIABLES gen, asm, sim, alu, lay, drv

vars == <<gen, asm, sim, alu, lay, drv>>

(***************************************************************************)
(* Program constants                                                        *)
(***************************************************************************)
RAM_SIZE == 4096
RAM_SIZE_NIBBLES == RAM_SIZE * 4
PAGE_SIZE == 256
ROM_PAGES == 16
FLAG_DELAY == 6
OUTPUT_LIMIT == 1000
WORD == 65536
HALF == 32768

(***************************************************************************)
(* Bounds of the model                                                      *)
(***************************************************************************)
MaxPrelude == 1
MaxSetters == 1
MaxPass == 7
MaxGap == 1
MaxTail == 1
MaxInputs == 1
MaxPushes == 3
MaxTailPass == 2
MaxSnapLines == 5
MaxBatch == 2
MaxAsked == 3
MaxOver == 2
DeepStack == 6
MaxSmall == 1
MaxSlack == 3
MaxSections == 3
MaxPageLines == 2
MaxUses == 1
MaxFullLines == 2
Filler == 18
MaxLayoutLines == 4
MaxOutputs == 2
MaxDataHead == 1
MaxDataWords == 2
MaxDriverPass == 2
MaxPath == 3

(***************************************************************************)
(* Option<T>: None is the empty tuple, Some(v) the one-element tuple        *)
(***************************************************************************)
None == <<>>
Some(v) == <<v>>
IsSome(o) == o # <<>>
Unwrap(o) == o[1]

EmptyFn == [x \in {} |-> 0]
Has(f, k) == k \in DOMAIN f
Put(f, k, v) == [x \in (DOMAIN f) \cup {k} |-> IF x = k THEN v ELSE f[x]]

Rom(n) == [kind |-> "Rom", n |-> n]
Ram(n) == [kind |-> "Ram", n |-> n]

\* MemNibblePtr::Rom(page, addr) / MemNibblePtr::Ram(addr)
MemRom(p, a) == [kind |-> "Rom", page |-> p, addr |-> a]
MemRam(a) == [kind |-> "Ram", page |-> 0, addr |-> a]

NoError == [kind |-> "", line |-> -1, page |-> -1, label |-> "", useflags_line |-> -1]
Err(kind, line, page, label, ul) ==
    [kind |-> kind, line |-> line, page |-> page, label |-> label, useflags_line |-> ul]

Running(s) == s.result = "Running"
Fail(s, e) == [s EXCEPT !.result = "Err", !.error = e]
Panic(s) == [s EXCEPT !.result = "Panic"]

(***************************************************************************)
(* Memory (compile.rs): cells are Option<Nibble>.  Of rom_pages only the    *)
(* written cells are kept; ram is the array up to the last written cell,    *)
(* the cells after it are None.                                             *)
(***************************************************************************)
Memory_blank == [rom_pages |-> EmptyFn, ram |-> <<>>]

\* self.ram[addr]
RamCell(ram, addr) == IF addr < Len(ram) THEN ram[addr + 1] ELSE None

\* Memory::set_nibble returns Err(()) on a cell that is already Some, and the
\* caller's .unwrap() panics on it
AlreadySome(s) == [Panic(s) EXCEPT !.error.kind = "set_nibble"]

\* Memory::set_nibble followed by the caller's .unwrap(): writing a cell that
\* is already Some panics.
set_nibble(s, ptr, n) ==
    IF ~Running(s) THEN s
    ELSE IF ptr.kind = "Rom"
    THEN IF Has(s.memory.rom_pages, <<ptr.page, ptr.addr>>)
         THEN AlreadySome(s)
         ELSE [s EXCEPT !.memory.rom_pages = Put(@, <<ptr.page, ptr.addr>>, n)]
    ELSE IF IsSome(RamCell(s.memory.ram, ptr.addr))
         THEN AlreadySome(s)
         ELSE IF ptr.addr < Len(s.memory.ram)
         THEN [s EXCEPT !.memory.ram[ptr.addr + 1] = Some(n)]
         ELSE IF ptr.addr = Len(s.memory.ram)
         THEN [s EXCEPT !.memory.ram = Append(@, Some(n))]
         ELSE [s EXCEPT !.memory.ram =
                   @ \o [i \in 1..(ptr.addr - Len(@)) |-> None] \o <<Some(n)>>]

\* MemNibblePtr::offset
MemNibblePtr_offset(ptr, offset) ==
    IF ptr.kind = "Rom"
    THEN MemRom(ptr.page, (ptr.addr + offset) % PAGE_SIZE)
    ELSE MemRam((ptr.addr + offset) % RAM_SIZE_NIBBLES)

\* PageLocation::nibble_ptr
PageLocation_nibble_ptr(page, a) ==
    IF page.kind = "Rom" THEN MemRom(page.n, a) ELSE MemRam(4 * page.n + a)

(***************************************************************************)
(* FlagsState (compile.rs): the places where the flags could have been set, *)
(* as a sequence of <<offset in page, assembly line>>.                      *)
(***************************************************************************)
FlagsState(sources) == [sources |-> sources]
NoFlags == FlagsState(<<>>)

(***************************************************************************)
(* MemoryManager (compile.rs)                                               *)
(***************************************************************************)
MemoryManager_blank ==
    [ memory |-> Memory_blank,
      rom_ptr |-> [n \in 0..(ROM_PAGES - 1) |-> Some(0)],
      ram_nibble_ptr |-> Some(0),
      labelled_page_locations |-> EmptyFn,
      labelled_ram_addresses |-> EmptyFn,
      labelled_page_location_targets |-> <<>>,
      ram_page_targets |-> <<>>,
      labelled_ram_address_targets |-> <<>>,
      ram_ident_to_addr |-> EmptyFn ]

\* the cursor may step one past the last nibble of the plane
inc_ram_one_past(s) ==
    IF IsSome(s.ram_nibble_ptr)
    THEN IF Unwrap(s.ram_nibble_ptr) + 1 <= RAM_SIZE_NIBBLES
         THEN [s EXCEPT !.ram_nibble_ptr = Some(Unwrap(@) + 1)]
         ELSE [s EXCEPT !.ram_nibble_ptr = None]
    ELSE s

\* MemoryManager::inc_ram: the state it leaves
inc_ram(s) ==
    IF IsSome(s.ram_nibble_ptr)
    THEN IF Unwrap(s.ram_nibble_ptr) + 1 < RAM_SIZE_NIBBLES
         THEN [s EXCEPT !.ram_nibble_ptr = Some(Unwrap(@) + 1)]
         ELSE [s EXCEPT !.ram_nibble_ptr = None]
    ELSE s

\* MemoryManager::inc_ram: the bool it returns
inc_ram_ok(s) ==
    IsSome(s.ram_nibble_ptr) /\ Unwrap(s.ram_nibble_ptr) + 1 < RAM_SIZE_NIBBLES

\* MemoryManager::next_ram_word_ptr: the state it leaves (the cursor rounded
\* up to a multiple of 4, None when that is past the plane)
next_ram_word_ptr(s) ==
    IF IsSome(s.ram_nibble_ptr)
    THEN LET up == ((Unwrap(s.ram_nibble_ptr) + 3) \div 4) * 4
         IN  IF up >= RAM_SIZE_NIBBLES
             THEN [s EXCEPT !.ram_nibble_ptr = None]
             ELSE [s EXCEPT !.ram_nibble_ptr = Some(up)]
    ELSE s

\* MemoryManager::next_ram_word_ptr: the Option<u16> it returns
next_ram_word_ptr_ret(s) ==
    LET t == next_ram_word_ptr(s)
    IN  IF IsSome(t.ram_nibble_ptr) THEN Some(Unwrap(t.ram_nibble_ptr) \div 4) ELSE None

\* every ROM section starts at offset 0 of its page
new_page_from_zero(s, page_ident) ==
    IF ~Running(s) THEN s
    ELSE [s EXCEPT !.page = IF page_ident.kind = "Rom" THEN Rom(page_ident.n) ELSE Ram(0),
                   !.page_ident = page_ident, !.ptr = Some(0),
                   !.flags_as_set = NoFlags,
                   !.flags_delay_queue = [i \in 1..FLAG_DELAY |-> NoFlags]]

\* MemoryManager::new_page: the MemoryPageManager fields are kept beside the
\* MemoryManager fields in the same record
new_page(s, page_ident) ==
    LET fresh(t, page, ptr) ==
            [t EXCEPT !.page = page, !.page_ident = page_ident, !.ptr = ptr,
                      !.flags_as_set = NoFlags,
                      !.flags_delay_queue = [i \in 1..FLAG_DELAY |-> NoFlags]]
    IN  IF ~Running(s) THEN s
        ELSE IF page_ident.kind = "Rom"
        THEN fresh(s, Rom(page_ident.n), s.rom_ptr[page_ident.n])
        ELSE IF Has(s.ram_ident_to_addr, page_ident.n)
        THEN Panic(s)
        ELSE LET t == next_ram_word_ptr(s)
             IN  IF IsSome(t.ram_nibble_ptr)
                 THEN LET addr == Unwrap(t.ram_nibble_ptr) \div 4
                      IN  fresh([t EXCEPT !.ram_ident_to_addr = Put(@, page_ident.n, addr)],
                                Ram(addr), Some(0))
                 ELSE fresh(t, Ram(0), None)

Nib3(v) == (v \div 4096) % 16
Nib2(v) == (v \div 256) % 16
Nib1(v) == (v \div 16) % 16
Nib0(v) == v % 16

\* one of the four stanzas of MemoryManager::push_ram
push_ram_nibble(s, n) ==
    IF ~Running(s) THEN s
    ELSE IF IsSome(s.ram_nibble_ptr)
    THEN inc_ram(set_nibble(s, MemRam(Unwrap(s.ram_nibble_ptr)), n))
    ELSE Fail(s, Err("RamFull", -1, -1, "", -1))

\* MemoryManager::push_ram
push_ram(s, value) ==
    push_ram_nibble(push_ram_nibble(push_ram_nibble(push_ram_nibble(
        s, Nib3(value)), Nib2(value)), Nib1(value)), Nib0(value))

\* MemoryManager::label_ram_address
\* the label is bound to the word the cursor is in, and the cursor stays
label_ram_address_unaligned(s, label, line) ==
    IF ~Running(s) THEN s
    ELSE IF IsSome(s.ram_nibble_ptr)
    THEN IF Has(s.labelled_ram_addresses, label)
         THEN Fail(s, Err("DuplicateRamLabel", line, -1, label, -1))
         ELSE [s EXCEPT !.labelled_ram_addresses = Put(@, label, Unwrap(s.ram_nibble_ptr) \div 4)]
    ELSE Fail(s, Err("RamFull", -1, -1, "", -1))

\* MemoryManager::label_ram_address
label_ram_address(s, label, line) ==
    IF ~Running(s) THEN s
    ELSE LET t == next_ram_word_ptr(s)
             r == next_ram_word_ptr_ret(s)
         IN  IF IsSome(r)
             THEN IF Has(t.labelled_ram_addresses, label)
                  THEN Fail(t, Err("DuplicateRamLabel", line, -1, label, -1))
                  ELSE [t EXCEPT !.labelled_ram_addresses = Put(@, label, Unwrap(r))]
             ELSE Fail(t, Err("RamFull", -1, -1, "", -1))

\* MemoryManager::push_labelled_ram_address
mm_push_labelled_ram_address(s, label, line) ==
    IF ~Running(s) THEN s
    ELSE IF IsSome(s.ram_nibble_ptr)
    THEN LET t0 == [s EXCEPT !.labelled_ram_address_targets =
                        Append(@, [label |-> label, line |-> line,
                                   ptr |-> MemRam(Unwrap(s.ram_nibble_ptr))])]
             t3 == inc_ram(inc_ram(inc_ram(t0)))
         IN  IF ~IsSome(t3.ram_nibble_ptr)
             THEN Fail(t3, Err("RamFull", -1, -1, "", -1))
             ELSE inc_ram(t3)
    ELSE Fail(s, Err("RamFull", -1, -1, "", -1))

(***************************************************************************)
(* MemoryPageManager (compile.rs)                                           *)
(***************************************************************************)
\* MemoryPageManager::nibble_ptr
nibble_ptr(s) ==
    IF s.page.kind = "Rom"
    THEN MemRom(s.page.n, Unwrap(s.ptr))
    ELSE MemRam(4 * s.page.n + Unwrap(s.ptr))

\* MemoryPageManager::current_flags_branch_pov
current_flags_branch_pov(s) == s.flags_delay_queue[FLAG_DELAY]

\* the queue takes a blank entry each nibble: a flag state is forgotten six
\* nibbles after the instruction that set it
tick_flags_delay_forgets(s) ==
    [s EXCEPT !.flags_delay_queue = <<NoFlags>> \o SubSeq(@, 1, FLAG_DELAY - 1)]

\* MemoryPageManager::tick_flags_delay: push_front(flags_as_set), pop_back
tick_flags_delay(s) ==
    [s EXCEPT !.flags_delay_queue =
        <<s.flags_as_set>> \o SubSeq(@, 1, FLAG_DELAY - 1)]

\* MemoryPageManager::flush_flags
flush_flags(s) ==
    IF ~Running(s) THEN s
    ELSE [s EXCEPT !.flags_delay_queue = [i \in 1..FLAG_DELAY |-> s.flags_as_set]]

\* MemoryPageManager::set_flags: self.ptr.unwrap() panics once the page is full
set_flags(s, line) ==
    IF ~Running(s) THEN s
    ELSE IF IsSome(s.ptr)
    THEN [s EXCEPT !.flags_as_set = FlagsState(<< <<Unwrap(s.ptr), line>> >>)]
    ELSE Panic(s)

\* MemoryPageManager::check_is_full
check_is_full(s) ==
    IF ~Running(s) THEN s
    ELSE IF IsSome(s.ptr) THEN s
    ELSE IF s.page_ident.kind = "Rom"
    THEN Fail(s, Err("RomPageFull", -1, s.page_ident.n, "", -1))
    ELSE Fail(s, Err("RamFull", -1, -1, "", -1))

\* the entries of the delay queue are left as they are
set_possible_flushed_flags_as_set_only(s, line) ==
    LET c == check_is_full(s)
    IN  IF ~Running(c) THEN c
        ELSE [c EXCEPT !.flags_as_set.sources = Append(@, <<Unwrap(c.ptr), line>>)]

\* MemoryPageManager::set_possible_flushed_flags
set_possible_flushed_flags(s, line) ==
    LET c == check_is_full(s)
    IN  IF ~Running(c) THEN c
        ELSE LET flag_state == <<Unwrap(c.ptr), line>>
             IN  [c EXCEPT !.flags_as_set.sources = Append(@, flag_state),
                           !.flags_delay_queue =
                               [i \in 1..FLAG_DELAY |->
                                   FlagsState(Append(c.flags_delay_queue[i].sources, flag_state))]]

\* MemoryPageManager::unreachable_flags
unreachable_flags(s) ==
    IF ~Running(s) THEN s
    ELSE flush_flags([s EXCEPT !.flags_as_set = NoFlags])

\* the queue from .back() to .front(), then flags_as_set: what wait_for_flags scans
wait_for_flags_scan(s) ==
    [i \in 1..(FLAG_DELAY + 1) |->
        IF i <= FLAG_DELAY THEN s.flags_delay_queue[FLAG_DELAY + 1 - i] ELSE s.flags_as_set]

\* MemoryPageManager::wait_for_flags
\* the last index that equals flags is returned
wait_for_flags_last(s, flags) ==
    LET scan == wait_for_flags_scan(s)
        hits == {i \in 1..(FLAG_DELAY + 1) : scan[i] = flags}
    IN  IF hits = {} THEN None
        ELSE Some((CHOOSE i \in hits : \A j \in hits : i >= j) - 1)

\* MemoryPageManager::wait_for_flags: Some(first index that equals flags) or None
wait_for_flags(s, flags) ==
    LET scan == wait_for_flags_scan(s)
        hits == {i \in 1..(FLAG_DELAY + 1) : scan[i] = flags}
    IN  IF hits = {} THEN None
        ELSE Some((CHOOSE i \in hits : \A j \in hits : i <= j) - 1)

\* MemoryPageManager::inc
inc(s) ==
    LET a == IF IsSome(s.ptr)
             THEN [s EXCEPT !.ptr = IF Unwrap(@) + 1 < PAGE_SIZE THEN Some(Unwrap(@) + 1) ELSE None]
             ELSE s
        b == IF a.page.kind = "Rom"
             THEN IF IsSome(a.rom_ptr[a.page.n])
                  THEN [a EXCEPT !.rom_ptr[a.page.n] =
                            IF Unwrap(@) + 1 < PAGE_SIZE THEN Some(Unwrap(@) + 1) ELSE None]
                  ELSE a
             ELSE IF inc_ram_ok(a) THEN inc_ram(a) ELSE [inc_ram(a) EXCEPT !.ptr = None]
        c == tick_flags_delay(b)
        consistent == IF c.page.kind = "Rom"
                      THEN c.rom_ptr[c.page.n] = c.ptr
                      ELSE IsSome(c.ram_nibble_ptr) \/ ~IsSome(c.ptr)
    IN  IF ~Running(s) THEN s
        ELSE IF consistent THEN c ELSE Panic(c)

\* MemoryPageManager::label_page_location
label_page_location(s, label) ==
    LET c == check_is_full(s)
    IN  IF ~Running(c) THEN c
        ELSE IF Has(c.labelled_page_locations, label) THEN Panic(c)
        ELSE [c EXCEPT !.labelled_page_locations =
                  Put(@, label, [page |-> c.page, ptr |-> Unwrap(c.ptr)])]

\* MemoryPageManager::push
push(s, n) ==
    LET c == check_is_full(s)
    IN  IF ~Running(c) THEN c
        ELSE inc(set_nibble(c, nibble_ptr(c), n))

\* MemoryPageManager::push_labelled_page_location
\* the slot of the label is one nibble wide
push_labelled_page_location_one_nibble(s, label) ==
    LET c == check_is_full(s)
    IN  IF ~Running(c) THEN c
        ELSE inc([c EXCEPT !.labelled_page_location_targets =
                      Append(@, [label |-> label, page |-> c.page, ptr |-> Unwrap(c.ptr)])])

push_labelled_page_location(s, label) ==
    LET c == check_is_full(s)
    IN  IF ~Running(c) THEN c
        ELSE LET t == [c EXCEPT !.labelled_page_location_targets =
                           Append(@, [label |-> label, page |-> c.page, ptr |-> Unwrap(c.ptr)])]
             IN  inc(check_is_full(inc(t)))

\* MemoryPageManager::push_page_ram_addr
push_page_ram_addr(s, ram_page_ident) ==
    LET c == check_is_full(s)
    IN  IF ~Running(c) THEN c
        ELSE LET t == [c EXCEPT !.ram_page_targets =
                           Append(@, [ident |-> ram_page_ident, page |-> c.page,
                                      ptr |-> Unwrap(c.ptr)])]
             IN  inc(check_is_full(inc(inc(inc(t)))))

\* MemoryPageManager::push_labelled_ram_address
push_labelled_ram_address(s, label, line) ==
    LET c == check_is_full(s)
    IN  IF ~Running(c) THEN c
        ELSE LET t == [c EXCEPT !.labelled_ram_address_targets =
                           Append(@, [label |-> label, line |-> line,
                                      ptr |-> PageLocation_nibble_ptr(c.page, Unwrap(c.ptr))])]
             IN  inc(check_is_full(inc(inc(inc(t)))))


(***************************************************************************)
(* ProgramMemory (memory.rs): 16 ROM pages of nibbles and a plane of 16-bit *)
(* words.  Cells that were never written read as 0 and are left out of the  *)
(* domain.                                                                  *)
(***************************************************************************)
CellOr0(f, k) == IF k \in DOMAIN f THEN f[k] ELSE 0

\* n.unwrap_or(Nibble::N0) on a cell of ram
RamNibble(ram, addr) == IF IsSome(RamCell(ram, addr)) THEN Unwrap(RamCell(ram, addr)) ELSE 0

\* ProgramMemory::new on the result of Memory::finish (unwrap_or(N0))
ProgramMemory_new(memory) ==
    [ rom |-> memory.rom_pages,
      ram |-> [i \in 0..(((Len(memory.ram) + 3) \div 4) - 1) |->
                  RamNibble(memory.ram, 4 * i + 3)
                  + 16 * RamNibble(memory.ram, 4 * i + 2)
                  + 256 * RamNibble(memory.ram, 4 * i + 1)
                  + 4096 * RamNibble(memory.ram, 4 * i)] ]

ProgramMemory_zeros == [rom |-> EmptyFn, ram |-> EmptyFn]

\* RamMem::read
RamMem_read(pm, addr) == CellOr0(pm.ram, addr % RAM_SIZE)

\* RamMem::write
\* the next word is written as well
RamMem_write_pair(pm, addr, value) ==
    [pm EXCEPT !.ram = Put(Put(@, addr % RAM_SIZE, value), (addr + 1) % RAM_SIZE, value)]

\* RamMem::write
RamMem_write(pm, addr, value) == [pm EXCEPT !.ram = Put(@, addr % RAM_SIZE, value)]

(***************************************************************************)
(* MemoryManager::finish: the three fixup tables are written into memory    *)
(***************************************************************************)
RECURSIVE finish_page_labels_low_first(_, _)
\* the two nibbles of the target are written low nibble first
finish_page_labels_low_first(s, i) ==
    IF ~Running(s) \/ i > Len(s.labelled_page_location_targets) THEN s
    ELSE LET t == s.labelled_page_location_targets[i]
         IN  IF ~Has(s.labelled_page_locations, t.label) THEN Panic(s)
             ELSE LET target_ptr == s.labelled_page_locations[t.label].ptr
                      w1 == set_nibble(s, PageLocation_nibble_ptr(t.page, t.ptr),
                                       target_ptr % 16)
                      w2 == set_nibble(w1, PageLocation_nibble_ptr(t.page, t.ptr + 1),
                                       (target_ptr \div 16) % 16)
                  IN  finish_page_labels_low_first(w2, i + 1)

RECURSIVE finish_page_labels(_, _)
\* the first loop of MemoryManager::finish
finish_page_labels(s, i) ==
    IF ~Running(s) \/ i > Len(s.labelled_page_location_targets) THEN s
    ELSE LET t == s.labelled_page_location_targets[i]
         IN  IF ~Has(s.labelled_page_locations, t.label) THEN Panic(s)
             ELSE LET target_ptr == s.labelled_page_locations[t.label].ptr
                      w1 == set_nibble(s, PageLocation_nibble_ptr(t.page, t.ptr),
                                       (target_ptr \div 16) % 16)
                      w2 == set_nibble(w1, PageLocation_nibble_ptr(t.page, t.ptr + 1),
                                       target_ptr % 16)
                  IN  finish_page_labels(w2, i + 1)

RECURSIVE finish_ram_pages(_, _)
finish_ram_pages(s, i) ==
    IF ~Running(s) \/ i > Len(s.ram_page_targets) THEN s
    ELSE LET t == s.ram_page_targets[i]
         IN  IF ~Has(s.ram_ident_to_addr, t.ident) THEN Panic(s)
             ELSE LET addr == s.ram_ident_to_addr[t.ident]
                      w1 == set_nibble(s, PageLocation_nibble_ptr(t.page, t.ptr + 3), Nib0(addr))
                      w2 == set_nibble(w1, PageLocation_nibble_ptr(t.page, t.ptr + 2), Nib1(addr))
                      w3 == set_nibble(w2, PageLocation_nibble_ptr(t.page, t.ptr + 1), Nib2(addr))
                      w4 == set_nibble(w3, PageLocation_nibble_ptr(t.page, t.ptr), Nib3(addr))
                  IN  finish_ram_pages(w4, i + 1)

RECURSIVE finish_ram_labels(_, _)
finish_ram_labels(s, i) ==
    IF ~Running(s) \/ i > Len(s.labelled_ram_address_targets) THEN s
    ELSE LET t == s.labelled_ram_address_targets[i]
         IN  IF Has(s.labelled_ram_addresses, t.label)
             THEN LET address == s.labelled_ram_addresses[t.label]
                      w1 == set_nibble(s, t.ptr, Nib3(address))
                      w2 == set_nibble(w1, MemNibblePtr_offset(t.ptr, 1), Nib2(address))
                      w3 == set_nibble(w2, MemNibblePtr_offset(t.ptr, 2), Nib1(address))
                      w4 == set_nibble(w3, MemNibblePtr_offset(t.ptr, 3), Nib0(address))
                  IN  finish_ram_labels(w4, i + 1)
             ELSE Fail(s, Err("MissingRamLabel", t.line, -1, t.label, -1))

\* MemoryManager::finish
finish(s) == finish_ram_labels(finish_ram_pages(finish_page_labels(s, 1), 1), 1)


(***************************************************************************)
(* compile_assembly (compile.rs): one operator per arm of the match on the  *)
(* line.  s.line_num is line.assembly_line_num of the line being compiled,  *)
(* s.page_ident the page of the section being compiled.                     *)
(***************************************************************************)
RECURSIVE push_range(_, _, _, _)
\* for nibble in nibbles[lo..hi] { code.push(nibble)? }: the run is split in
\* halves to keep the recursion shallow; the calls happen in the same order
push_range(s, nibbles, lo, hi) ==
    IF ~Running(s) \/ lo > hi THEN s
    ELSE IF lo = hi THEN push(s, nibbles[lo])
    ELSE LET mid == (lo + hi) \div 2
         IN  push_range(push_range(s, nibbles, lo, mid), nibbles, mid + 1, hi)

\* for nibble in nibbles { code.push(nibble)? }
push_all(s, nibbles, i) == push_range(s, nibbles, i, Len(nibbles))

\* only ROM against RAM is compared, not the page number
other_page_kind_only(page, target_page) == page.kind # target_page.kind

\* page != *target_page.unwrap()
other_page(page, target_page) == page # target_page

cmd_Pass(s) == push(s, 0)

cmd_Raw(s, nibbles) == push_all(set_possible_flushed_flags(s, s.line_num), nibbles, 1)

cmd_RawLabel(s, label) ==
    LET c == set_possible_flushed_flags(s, s.line_num)
    IN  IF ~Running(c) THEN c
        ELSE IF ~Has(c.label_to_page, label)
        THEN Fail(c, Err("MissingLabel", c.line_num, -1, label, -1))
        ELSE push_labelled_page_location(c, label)

cmd_Value(s, v) ==
    IF ~IsSome(v) THEN Fail(s, Err("Invalid16BitValue", s.line_num, -1, "", -1))
    ELSE push_all(s, <<1, Nib3(Unwrap(v)), Nib2(Unwrap(v)), Nib1(Unwrap(v)), Nib0(Unwrap(v))>>, 1)

cmd_AddressValue(s, label) == push_labelled_ram_address(push(s, 1), label, s.line_num)

\* the label is not looked up
cmd_Jump_unchecked(s, label) ==
    flush_flags(push_labelled_page_location(push(unreachable_flags(s), 6), label))

cmd_Jump(s, label) ==
    LET c == unreachable_flags(s)
    IN  IF ~Has(c.label_to_page, label)
        THEN Fail(c, Err("MissingLabel", c.line_num, -1, label, -1))
        ELSE IF other_page(c.page_ident, c.label_to_page[label])
        THEN Fail(c, Err("JumpOrBranchToOtherPage", c.line_num, -1, "", -1))
        ELSE push_labelled_page_location(push(c, 2), label)

\* no PASS is pushed: the flags the branch sees now must be the snapshot
branch_useflags_no_wait(s) ==
    IF ~IsSome(s.useflag_saved_flag_state) THEN s
    ELSE LET flags == Unwrap(s.useflag_saved_flag_state).flags
             useflags_line == Unwrap(s.useflag_saved_flag_state).line
         IN  IF flags # current_flags_branch_pov(s)
             THEN Fail(s, Err("BadUseflagsWithBranch", s.line_num, -1, "", useflags_line))
             ELSE [s EXCEPT !.branch_lines = Put(@, s.line_num, useflags_line)]

\* the match on useflag_saved_flag_state inside Command::Branch
branch_useflags(s) ==
    IF ~IsSome(s.useflag_saved_flag_state) THEN s
    ELSE LET flags == Unwrap(s.useflag_saved_flag_state).flags
             useflags_line == Unwrap(s.useflag_saved_flag_state).line
             delay == wait_for_flags(s, flags)
             padded == IF IsSome(delay)
                       THEN push_all(s, [i \in 1..Unwrap(delay) |-> 0], 1)
                       ELSE IF flags # current_flags_branch_pov(s)
                       THEN Fail(s, Err("BadUseflagsWithBranch", s.line_num, -1, "", useflags_line))
                       ELSE s
         IN  IF ~Running(padded) THEN padded
             ELSE [padded EXCEPT !.branch_lines = Put(@, s.line_num, useflags_line)]

\* useflag_saved_flag_state is kept for the next BRANCH
cmd_Branch_keeps_snapshot(s, condition, label) ==
    IF ~Has(s.label_to_page, label)
    THEN Fail(s, Err("MissingLabel", s.line_num, -1, label, -1))
    ELSE IF other_page(s.page_ident, s.label_to_page[label])
    THEN Fail(s, Err("JumpOrBranchToOtherPage", s.line_num, -1, "", -1))
    ELSE LET u == branch_useflags(s)
         IN  IF ~Running(u) THEN u
             ELSE flush_flags(push_labelled_page_location(push(push(u, 3), condition), label))

cmd_Branch(s, condition, label) ==
    IF ~Has(s.label_to_page, label)
    THEN Fail(s, Err("MissingLabel", s.line_num, -1, label, -1))
    ELSE IF other_page(s.page_ident, s.label_to_page[label])
    THEN Fail(s, Err("JumpOrBranchToOtherPage", s.line_num, -1, "", -1))
    ELSE LET u == branch_useflags(s)
         IN  IF ~Running(u) THEN u
             ELSE flush_flags(push_labelled_page_location(
                      push(push([u EXCEPT !.useflag_saved_flag_state = None], 3), condition),
                      label))

cmd_Push(s, reg) == push(push(s, 4), reg)

cmd_Pop(s, reg) == push(push(s, 5), reg)

\* every CALL is compiled as a call within the page
cmd_Call_local(s, label) ==
    LET c == flush_flags(set_possible_flushed_flags(s, s.line_num))
    IN  IF ~Running(c) THEN c
        ELSE IF ~Has(c.label_to_page, label)
        THEN Fail(c, Err("MissingLabel", c.line_num, -1, label, -1))
        ELSE push_labelled_page_location(push(c, 6), label)

cmd_Call(s, label) ==
    LET c == flush_flags(set_possible_flushed_flags(s, s.line_num))
    IN  IF ~Running(c) THEN c
        ELSE IF ~Has(c.label_to_page, label)
        THEN Fail(c, Err("MissingLabel", c.line_num, -1, label, -1))
        ELSE LET target_page == c.label_to_page[label]
             IN  IF c.page_ident = target_page
                 THEN push_labelled_page_location(push(c, 6), label)
                 ELSE IF target_page.kind = "Rom"
                 THEN push_labelled_page_location(push(push(c, 12), target_page.n), label)
                 ELSE push_labelled_page_location(
                          push(push_page_ram_addr(push(c, 1), target_page.n), 13), label)

cmd_Return(s) == push(unreachable_flags(s), 7)

cmd_Add(s, reg) == push(push(set_flags(s, s.line_num), 8), reg)

cmd_Rotate(s, shift, reg) == push(push(push(s, 9), shift), reg)

\* the ALM1 arms that call set_flags: all but Duplicate(0), Read(2), ReadPop(3)
Alm1SetsFlags(op) == op \notin {0, 2, 3}

\* the ALM2 arms that call set_flags: all but Swap(0), Write(2), WritePop(3)
Alm2SetsFlags(op) == op \notin {0, 2, 3}

\* Duplicate .. ArithmeticRightShift: opcode 10, then the sub-op
cmd_Alm1(s, op) ==
    push(push(IF Alm1SetsFlags(op) THEN set_flags(s, s.line_num) ELSE s, 10), op)

\* Swap .. SubWithCarry: opcode 11, the sub-op, the register
cmd_Alm2(s, op, reg) ==
    push(push(push(IF Alm2SetsFlags(op) THEN set_flags(s, s.line_num) ELSE s, 11), op), reg)

cmd_RawRamCall(s) == push(flush_flags(set_possible_flushed_flags(s, s.line_num)), 13)

cmd_Input(s) == push(s, 14)

\* the first digit gets bit 3
cmd_Output_marks_first(s, octs) ==
    push_all(push(s, 15), [i \in 1..Len(octs) |-> IF i = 1 THEN octs[i] + 8 ELSE octs[i]], 1)

\* the last digit gets bit 3
cmd_Output(s, octs) ==
    push_all(push(s, 15), [i \in 1..Len(octs) |-> IF i = Len(octs) THEN octs[i] + 8 ELSE octs[i]], 1)

cmd_Alloc_in_prog(s) == Fail(s, Err("InvalidCommandLocation", s.line_num, -1, "", -1))

meta_Label(s, label) == label_page_location(set_possible_flushed_flags(s, s.line_num), label)

meta_UseFlags(s) ==
    [s EXCEPT !.useflag_saved_flag_state = Some([flags |-> s.flags_as_set, line |-> s.line_num]),
              !.useflag_lines = Put(@, s.line_num,
                  [i \in 1..Len(s.flags_as_set.sources) |-> s.flags_as_set.sources[i][2]])]

\* the lines of a ..DATA section
data_Value(s, v) ==
    IF ~IsSome(v) THEN Fail(s, Err("Invalid16BitValue", s.line_num, -1, "", -1))
    ELSE push_ram(s, Unwrap(v))

data_AddressValue(s, label) == mm_push_labelled_ram_address(s, label, s.line_num)

RECURSIVE push_ram_times(_, _)
\* for _ in 0..quantity { code.push_ram(0)? }: the run is split in halves
\* to keep the recursion shallow; the calls happen in the same order
push_ram_times(s, quantity) ==
    IF ~Running(s) \/ quantity = 0 THEN s
    ELSE IF quantity = 1 THEN push_ram(s, 0)
    ELSE push_ram_times(push_ram_times(s, quantity \div 2), quantity - (quantity \div 2))

data_Alloc(s, v) ==
    IF ~IsSome(v) THEN Fail(s, Err("Invalid16BitValue", s.line_num, -1, "", -1))
    ELSE push_ram_times(s, Unwrap(v))

data_Label(s, label) == label_ram_address(s, label, s.line_num)

\* the line is skipped
data_Other_skipped(s) == s

data_Other(s) == Fail(s, Err("InvalidCommandLocation", s.line_num, -1, "", -1))


(***************************************************************************)
(* The state of compile_assembly: the MemoryManager `code`, the             *)
(* MemoryPageManager of the section being compiled, the locals of the       *)
(* function, and the LayoutPagesSuccess it was given.                       *)
(***************************************************************************)
NoPage == [kind |-> "", n |-> -1]

compile_blank(label_to_page) ==
    [ memory |-> MemoryManager_blank.memory,
      rom_ptr |-> MemoryManager_blank.rom_ptr,
      ram_nibble_ptr |-> MemoryManager_blank.ram_nibble_ptr,
      labelled_page_locations |-> MemoryManager_blank.labelled_page_locations,
      labelled_ram_addresses |-> MemoryManager_blank.labelled_ram_addresses,
      labelled_page_location_targets |-> MemoryManager_blank.labelled_page_location_targets,
      ram_page_targets |-> MemoryManager_blank.ram_page_targets,
      labelled_ram_address_targets |-> MemoryManager_blank.labelled_ram_address_targets,
      ram_ident_to_addr |-> MemoryManager_blank.ram_ident_to_addr,
      page |-> NoPage,
      page_ident |-> NoPage,
      ptr |-> None,
      flags_as_set |-> NoFlags,
      flags_delay_queue |-> [i \in 1..FLAG_DELAY |-> NoFlags],
      section |-> "Unset",
      useflag_saved_flag_state |-> None,
      page_lines |-> <<>>,
      rom_lines |-> [n \in 0..(ROM_PAGES - 1) |-> <<>>],
      ram_lines |-> <<>>,
      ram_pages |-> <<>>,
      useflag_lines |-> EmptyFn,
      branch_lines |-> EmptyFn,
      label_to_page |-> label_to_page,
      ram_page_ident_counter |-> 0,
      data_page_ident_counter |-> 0,
      line_num |-> 0,
      result |-> "Running",
      error |-> NoError,
      program_memory |-> ProgramMemory_zeros ]

\* the source line as CompiledLine keeps it
Cmd(op, a, b, l) == [op |-> op, a |-> a, b |-> b, l |-> l]

PtrOr256(s) == IF IsSome(s.ptr) THEN Unwrap(s.ptr) ELSE PAGE_SIZE

\* the end of the loop body for one line of a program section: the
\* CompiledLine is recorded and the next line is taken
line_done(s, t, cmd) ==
    IF ~Running(t) THEN t
    ELSE [t EXCEPT !.page_lines = Append(@, [cmd |-> cmd, assembly_line_num |-> s.line_num,
                                             page_start |-> PtrOr256(s), page_end |-> PtrOr256(t)]),
                   !.line_num = @ + 1]

\* the end of the loop body for one line of a data section
data_line_done(t) ==
    IF ~Running(t) THEN t ELSE [t EXCEPT !.line_num = @ + 1]

\* the code after the loop over the lines of a program section; the
\* MemoryPageManager is dropped
end_section(s) ==
    IF s.section # "Prog" THEN s
    ELSE LET r == IF s.page_ident.kind = "Rom"
                  THEN [s EXCEPT !.rom_lines[s.page_ident.n] = @ \o s.page_lines]
                  ELSE [s EXCEPT !.ram_lines = Append(@, s.page_lines),
                                 !.ram_pages = Append(@, [start |-> s.page.n, length |-> PtrOr256(s)])]
         IN  [r EXCEPT !.page = NoPage, !.page_ident = NoPage, !.ptr = None,
                       !.flags_as_set = NoFlags,
                       !.flags_delay_queue = [i \in 1..FLAG_DELAY |-> NoFlags],
                       !.useflag_saved_flag_state = None,
                       !.page_lines = <<>>,
                       !.section = "Unset"]

\* layout_pages on Meta::RomPage(n), and the start of the section in compile_assembly
section_Rom(s, n) ==
    [new_page(end_section(s), Rom(n)) EXCEPT !.section = "Prog", !.line_num = @ + 1]

\* layout_pages on Meta::RamPage, and the start of the section in compile_assembly
section_Ram(s) ==
    LET e == end_section(s)
    IN  [new_page(e, Ram(e.ram_page_ident_counter))
            EXCEPT !.section = "Prog", !.line_num = @ + 1, !.ram_page_ident_counter = @ + 1]

\* layout_pages on Meta::Data, and the start of the section in compile_assembly
section_Data(s) ==
    [end_section(s) EXCEPT !.section = "Data", !.line_num = @ + 1,
                           !.data_page_ident_counter = @ + 1]

\* the tail of compile_assembly: code.finish()?, memory.finish()
compile_finish(s) ==
    LET f == finish(end_section(s))
    IN  IF ~Running(f) THEN f
        ELSE [f EXCEPT !.result = "Ok", !.program_memory = ProgramMemory_new(f.memory)]


(***************************************************************************)
(* 16-bit arithmetic (simulator.rs)                                         *)
(***************************************************************************)
AluFlags(z, n, c, v) == [zero |-> z, negative |-> n, carry |-> c, overflow |-> v]

\* noop_get_flags
noop_get_flags(a) == AluFlags(a = 0, a >= HALF, FALSE, FALSE)

\* the sum returned by add_with_flags: a.wrapping_add(b.wrapping_add(c))
add_sum(a, b, cin) == (a + ((b + (IF cin THEN 1 ELSE 0)) % WORD)) % WORD

\* carry_last: bit 16 of the 32-bit sum
add_carry_last(a, b, cin) == ((a + b + (IF cin THEN 1 ELSE 0)) \div WORD) % 2 = 1

\* the carry-in is left out of the carry into bit 15
add_carry_second_to_last_no_cin(a, b, cin) ==
    (((a % HALF) + (b % HALF)) \div HALF) % 2 = 1

\* carry_second_to_last: bit 15 of the sum of the operands without their bit 15
add_carry_second_to_last(a, b, cin) ==
    (((a % HALF) + (b % HALF) + (IF cin THEN 1 ELSE 0)) \div HALF) % 2 = 1

\* add_with_flags
add_with_flags(a, b, cin) ==
    LET s == add_sum(a, b, cin)
        s_flags == noop_get_flags(s)
        carry_last == add_carry_last(a, b, cin)
        carry_second_to_last == add_carry_second_to_last(a, b, cin)
    IN  [s |-> s,
         flags |-> AluFlags(s_flags.zero, s_flags.negative, carry_last,
                            carry_last # carry_second_to_last)]

Not16(x) == (WORD - 1) - x

RECURSIVE And16(_, _)
And16(a, b) ==
    IF a = 0 \/ b = 0 THEN 0 ELSE (a % 2) * (b % 2) + 2 * And16(a \div 2, b \div 2)

Or16(a, b) == a + b - And16(a, b)
Xor16(a, b) == a + b - 2 * And16(a, b)

(***************************************************************************)
(* Simulator (simulator.rs).  flags_delay[1] is .front(), the oldest entry. *)
(* `produced` is a history variable: the flags each flag-setting            *)
(* instruction of the current page produced when it last ran, by offset;    *)
(* `last_op` is one too: the opcode the last call of step fetched.          *)
(***************************************************************************)
\* ProgramMemory::read
\* the nibbles of a RAM word are counted from the low end
ProgramMemory_read_low_first(pm, page, counter) ==
    IF page.kind = "Rom"
    THEN CellOr0(pm.rom, <<page.n, counter>>)
    ELSE LET nibble_block == RamMem_read(pm, (page.n + (counter \div 4)) % WORD)
             nibble_idx == counter % 4
         IN  CASE nibble_idx = 3 -> Nib3(nibble_block)
               [] nibble_idx = 2 -> Nib2(nibble_block)
               [] nibble_idx = 1 -> Nib1(nibble_block)
               [] OTHER -> Nib0(nibble_block)

\* ProgramMemory::read
ProgramMemory_read(pm, page, counter) ==
    IF page.kind = "Rom"
    THEN CellOr0(pm.rom, <<page.n, counter>>)
    ELSE LET nibble_block == RamMem_read(pm, (page.n + (counter \div 4)) % WORD)
             nibble_idx == 3 - (counter % 4)
         IN  CASE nibble_idx = 3 -> Nib3(nibble_block)
               [] nibble_idx = 2 -> Nib2(nibble_block)
               [] nibble_idx = 1 -> Nib1(nibble_block)
               [] OTHER -> Nib0(nibble_block)

\* ProgramMemory::read_page
read_page(pm, page) == [i \in 0..(PAGE_SIZE - 1) |-> ProgramMemory_read(pm, page, i)]

\* Simulator::load_pache
load_pache(s) == [s EXCEPT !.pcache = read_page(s.memory, s.program_counter.page)]

\* Simulator::new
Simulator_new(memory) ==
    load_pache(
        [ memory |-> memory,
          program_counter |-> [page |-> Rom(0), counter |-> 0],
          pcache |-> [i \in 0..(PAGE_SIZE - 1) |-> 0],
          call_stack |-> <<>>,
          data_stack |-> <<>>,
          registers |-> [r \in 0..15 |-> 0],
          flags_delay |-> [i \in 1..FLAG_DELAY |-> AluFlags(TRUE, FALSE, FALSE, FALSE)],
          flags |-> AluFlags(TRUE, FALSE, FALSE, FALSE),
          input_queue |-> <<>>,
          output |-> <<>>,
          live |-> TRUE,
          loc |-> "idle",
          ret |-> "None",
          produced |-> EmptyFn,
          last_op |-> -1 ])

\* the simulator before Simulator::new has run
NoSimulator == [Simulator_new(ProgramMemory_zeros) EXCEPT !.live = FALSE]

\* only the newest entry of the queue is overwritten
sim_set_flags_newest_only(s, flags, past) ==
    [s EXCEPT !.flags = flags,
              !.flags_delay = [i \in 1..FLAG_DELAY |->
                                  IF i = FLAG_DELAY THEN flags ELSE s.flags_delay[i]]]

\* Simulator::set_flags: the newest `past` entries of the queue are overwritten
sim_set_flags(s, flags, past) ==
    [s EXCEPT !.flags = flags,
              !.flags_delay = [i \in 1..FLAG_DELAY |->
                                  IF i > FLAG_DELAY - past THEN flags ELSE s.flags_delay[i]]]

\* Simulator::flush_flag_delay
flush_flag_delay(s) == [s EXCEPT !.flags_delay = [i \in 1..FLAG_DELAY |-> s.flags]]

\* the counter stays at 255
increment_saturating(s) ==
    [s EXCEPT !.program_counter.counter = IF @ + 1 < PAGE_SIZE THEN @ + 1 ELSE @,
              !.flags_delay = Append(Tail(@), s.flags)]

\* Simulator::increment (ProgramPtr::increment wraps the u8 counter)
increment(s) ==
    [s EXCEPT !.program_counter.counter = (@ + 1) % PAGE_SIZE,
              !.flags_delay = Append(Tail(@), s.flags)]

\* Simulator::read_pcache
read_pcache(s) == s.pcache[s.program_counter.counter]

\* Simulator::push_data_stack
\* a push on a stack of eight entries is refused
push_data_stack_bounded(s, x) ==
    IF Len(s.data_stack) >= 8 THEN s ELSE [s EXCEPT !.data_stack = Append(@, x)]

\* Simulator::push_data_stack
push_data_stack(s, x) == [s EXCEPT !.data_stack = Append(@, x)]

\* Simulator::pop_data_stack: the value, unwrap_or(0)
pop_value(s) == IF s.data_stack = <<>> THEN 0 ELSE s.data_stack[Len(s.data_stack)]

\* Simulator::pop_data_stack: the state it leaves
pop_data_stack(s) ==
    IF s.data_stack = <<>> THEN s
    ELSE [s EXCEPT !.data_stack = SubSeq(@, 1, Len(@) - 1)]

\* history: the flag-setting instruction that started at `at` produced `flags`
note_produced(s, at, flags) == [s EXCEPT !.produced = Put(@, at, flags)]


(***************************************************************************)
(* Simulator::step, one operator per arm of the match on the opcode         *)
(***************************************************************************)
Continue(s) == [s EXCEPT !.ret = "Continue", !.loc = "idle"]

\* Nibble::N0
st_Pass(s) == Continue(increment(s))

\* Nibble::N1
st_Value(s) ==
    LET s1 == increment(s)
        n3 == read_pcache(s1)
        s2 == increment(s1)
        n2 == read_pcache(s2)
        s3 == increment(s2)
        n1 == read_pcache(s3)
        s4 == increment(s3)
        n0 == read_pcache(s4)
        s5 == increment(s4)
    IN  Continue(push_data_stack(s5, n0 + 16 * n1 + 256 * n2 + 4096 * n3))

\* the match on cond inside the Branch arm
branch_condition(cond, f, input_empty) ==
    CASE cond = 0 -> ~input_empty
      [] cond = 1 -> input_empty
      [] cond = 2 -> f.zero
      [] cond = 3 -> ~f.zero
      [] cond = 4 -> f.negative
      [] cond = 5 -> ~f.negative
      [] cond = 6 -> f.overflow
      [] cond = 7 -> ~f.overflow
      [] cond = 8 -> f.carry
      [] cond = 9 -> ~f.carry
      [] cond = 10 -> f.carry /\ ~f.zero
      [] cond = 11 -> ~f.carry \/ f.zero
      [] cond = 12 -> f.negative = f.overflow
      [] cond = 13 -> f.negative # f.overflow
      [] cond = 14 -> f.negative = f.overflow /\ ~f.zero
      [] OTHER -> f.negative # f.overflow \/ f.zero

\* the flags the Branch arm reads before its first increment
branch_flags(s) == s.flags_delay[1]

\* the queue is flushed only when the branch is taken
st_Branch_flush_if_taken(s) ==
    LET f == branch_flags(s)
        s1 == increment(s)
        cond == read_pcache(s1)
        s2 == increment(s1)
        a1 == read_pcache(s2)
        s3 == increment(s2)
        a0 == read_pcache(s3)
        s4 == increment(s3)
        addr == (a0 + 16 * a1) % PAGE_SIZE
        taken == branch_condition(cond, f, s.input_queue = <<>>)
    IN  IF taken
        THEN Continue(flush_flag_delay([s4 EXCEPT !.program_counter.counter = addr]))
        ELSE Continue(s4)

\* Nibble::N3
st_Branch(s) ==
    LET f == branch_flags(s)
        s1 == increment(s)
        cond == read_pcache(s1)
        s2 == increment(s1)
        a1 == read_pcache(s2)
        s3 == increment(s2)
        a0 == read_pcache(s3)
        s4 == increment(s3)
        addr == (a0 + 16 * a1) % PAGE_SIZE
        taken == branch_condition(cond, f, s.input_queue = <<>>)
        s5 == IF taken THEN [s4 EXCEPT !.program_counter.counter = addr] ELSE s4
    IN  Continue(flush_flag_delay(s5))

\* Nibble::N5
st_Pop(s) ==
    LET s1 == increment(s)
        reg == read_pcache(s1)
        s2 == increment(s1)
    IN  Continue([pop_data_stack(s2) EXCEPT !.registers[reg] = pop_value(s2)])

\* Nibble::N6
st_Call(s) ==
    LET s1 == increment(s)
        a1 == read_pcache(s1)
        s2 == increment(s1)
        a0 == read_pcache(s2)
        s3 == increment(s2)
        addr == (a0 + 16 * a1) % PAGE_SIZE
        s4 == [s3 EXCEPT !.call_stack = Append(@, s3.program_counter),
                         !.program_counter.counter = addr]
    IN  Continue(flush_flag_delay(load_pache(s4)))

\* Nibble::N7
\* the program counter moves past the RETURN before Finish is returned
st_Return_increments(s) ==
    IF s.call_stack = <<>>
    THEN [increment(s) EXCEPT !.ret = "Finish", !.loc = "idle"]
    ELSE Continue(load_pache([s EXCEPT !.program_counter = s.call_stack[Len(s.call_stack)],
                                       !.call_stack = SubSeq(@, 1, Len(@) - 1)]))

\* Nibble::N7
st_Return(s) ==
    IF s.call_stack = <<>>
    THEN [s EXCEPT !.ret = "Finish", !.loc = "idle"]
    ELSE Continue(load_pache([s EXCEPT !.program_counter = s.call_stack[Len(s.call_stack)],
                                       !.call_stack = SubSeq(@, 1, Len(@) - 1)]))

\* Nibble::N8: self.flags is assigned, the delay queue is not touched
st_Add(s) ==
    LET s1 == increment(s)
        reg == read_pcache(s1)
        s2 == increment(s1)
        acc_value == pop_value(s2)
        reg_value == s2.registers[reg]
        r == add_with_flags(acc_value, reg_value, FALSE)
        s3 == push_data_stack(pop_data_stack(s2), r.s)
    IN  Continue(note_produced([s3 EXCEPT !.flags = r.flags], s.program_counter.counter, r.flags))

\* x >> 1 with `top` shifted in, and the carry flag set to the bit shifted out
shift_right(x, top) ==
    LET y == (x \div 2) + (IF top THEN HALF ELSE 0)
    IN  [y |-> y, f |-> [noop_get_flags(y) EXCEPT !.carry = (x % 2 = 1)]]

\* the match on op inside the Alm1 arm, after the two increments: the
\* value left on the stack (None: nothing pushed back) and the flags set
alm1_result(op, x, flags) ==
    CASE op = 1 -> [y |-> Some(Not16(x)), f |-> Some(noop_get_flags(Not16(x)))]
      [] op = 4 -> LET r == add_with_flags(x, 0, TRUE) IN [y |-> Some(r.s), f |-> Some(r.flags)]
      [] op = 5 -> LET r == add_with_flags(x, 0, flags.carry) IN [y |-> Some(r.s), f |-> Some(r.flags)]
      [] op = 6 -> LET r == add_with_flags(x, WORD - 1, FALSE) IN [y |-> Some(r.s), f |-> Some(r.flags)]
      [] op = 7 -> LET r == add_with_flags(x, WORD - 1, flags.carry) IN [y |-> Some(r.s), f |-> Some(r.flags)]
      [] op = 8 -> LET r == add_with_flags(Not16(x), 0, TRUE) IN [y |-> Some(r.s), f |-> Some(r.flags)]
      [] op = 9 -> LET r == add_with_flags(Not16(x), 0, flags.carry) IN [y |-> Some(r.s), f |-> Some(r.flags)]
      [] op = 10 -> [y |-> Some(x), f |-> Some(noop_get_flags(x))]
      [] op = 11 -> [y |-> None, f |-> Some(noop_get_flags(x))]
      [] op = 12 -> LET r == shift_right(x, FALSE) IN [y |-> Some(r.y), f |-> Some(r.f)]
      [] op = 13 -> LET r == shift_right(x, flags.carry) IN [y |-> Some(r.y), f |-> Some(r.f)]
      [] op = 14 -> LET r == shift_right(x, TRUE) IN [y |-> Some(r.y), f |-> Some(r.f)]
      [] OTHER -> LET r == shift_right(x, x >= HALF) IN [y |-> Some(r.y), f |-> Some(r.f)]

\* Nibble::N10
\* READ and READPOP push the word they read on the data stack
st_Alm1_reads_to_stack(s) ==
    LET s1 == increment(s)
        op == read_pcache(s1)
        s2 == increment(s1)
        x == pop_value(s2)
        p == pop_data_stack(s2)
    IN  CASE op = 0 -> Continue(push_data_stack(push_data_stack(p, x), x))
          [] op = 2 -> Continue(push_data_stack(push_data_stack(p, x), RamMem_read(s.memory, x)))
          [] op = 3 -> Continue(push_data_stack(p, RamMem_read(s.memory, x)))
          [] OTHER ->
               LET r == alm1_result(op, x, s2.flags)
                   q == sim_set_flags(p, Unwrap(r.f), 2)
                   w == IF IsSome(r.y) THEN push_data_stack(q, Unwrap(r.y)) ELSE q
               IN  Continue(note_produced(w, s.program_counter.counter, Unwrap(r.f)))

\* Nibble::N10
st_Alm1(s) ==
    LET s1 == increment(s)
        op == read_pcache(s1)
        s2 == increment(s1)
        x == pop_value(s2)
        p == pop_data_stack(s2)
    IN  CASE op = 0 -> Continue(push_data_stack(push_data_stack(p, x), x))
          [] op = 2 -> Continue(push_data_stack(
                           [p EXCEPT !.input_queue = Append(@, RamMem_read(s.memory, x))], x))
          [] op = 3 -> Continue([p EXCEPT !.input_queue = Append(@, RamMem_read(s.memory, x))])
          [] OTHER ->
               LET r == alm1_result(op, x, s2.flags)
                   q == sim_set_flags(p, Unwrap(r.f), 2)
                   w == IF IsSome(r.y) THEN push_data_stack(q, Unwrap(r.y)) ELSE q
               IN  Continue(note_produced(w, s.program_counter.counter, Unwrap(r.f)))

\* the match on op inside the Alm2 arm for the flag-setting sub-ops: the value
\* pushed (None: the stack is left as it was), whether the register takes
\* the popped value, and the flags
alm2_result(op, x, r, flags) ==
    LET plain(y) == [y |-> Some(y), f |-> noop_get_flags(y), swap |-> FALSE]
        arith(a) == [y |-> Some(a.s), f |-> a.flags, swap |-> FALSE]
    IN  CASE op = 1 -> arith(add_with_flags(x, Not16(r), TRUE))
          [] op = 4 -> plain(And16(x, r))
          [] op = 5 -> plain(Not16(And16(x, r)))
          [] op = 6 -> plain(Or16(x, r))
          [] op = 7 -> plain(Not16(Or16(x, r)))
          [] op = 8 -> plain(Xor16(x, r))
          [] op = 9 -> plain(Not16(Xor16(x, r)))
          [] op = 10 -> [y |-> None, f |-> noop_get_flags(r), swap |-> FALSE]
          [] op = 11 -> [y |-> None, f |-> add_with_flags(x, Not16(r), TRUE).flags, swap |-> FALSE]
          [] op = 12 -> [arith(add_with_flags(x, r, FALSE)) EXCEPT !.swap = TRUE]
          [] op = 13 -> [arith(add_with_flags(x, Not16(r), TRUE)) EXCEPT !.swap = TRUE]
          [] op = 14 -> arith(add_with_flags(x, r, flags.carry))
          [] OTHER -> arith(add_with_flags(x, Not16(r), flags.carry))

\* Nibble::N11
st_Alm2(s) ==
    LET s1 == increment(s)
        op == read_pcache(s1)
        s2 == increment(s1)
        reg == read_pcache(s2)
        s3 == increment(s2)
        r == s3.registers[reg]
        x == pop_value(s3)
        p == pop_data_stack(s3)
    IN  CASE op = 0 -> Continue(push_data_stack([p EXCEPT !.registers[reg] = x], r))
          [] op = 2 -> Continue(push_data_stack([p EXCEPT !.memory = RamMem_write(@, x, r)], x))
          [] op = 3 -> Continue([p EXCEPT !.memory = RamMem_write(@, x, r)])
          [] OTHER ->
               LET a == alm2_result(op, x, r, s3.flags)
                   base == IF op = 10 THEN s3
                           ELSE IF IsSome(a.y) THEN push_data_stack(p, Unwrap(a.y))
                           ELSE push_data_stack(p, x)
                   q == sim_set_flags(base, a.f, 3)
                   w == IF a.swap THEN [q EXCEPT !.registers[reg] = x] ELSE q
               IN  Continue(note_produced(w, s.program_counter.counter, a.f))

\* Nibble::N14
\* the newest value of the queue is taken
st_Input_takes_newest(s) ==
    LET s1 == increment(s)
        q == s1.input_queue
    IN  IF q # <<>>
        THEN Continue(push_data_stack([s1 EXCEPT !.input_queue = SubSeq(q, 1, Len(q) - 1)],
                                      q[Len(q)]))
        ELSE [s1 EXCEPT !.loc = "input_loop", !.ret = "None"]

\* Nibble::N14 up to the first pass through the loop: the increment, then
\* either the pop succeeds or the thread sleeps inside step
st_Input(s) ==
    LET s1 == increment(s)
    IN  IF s1.input_queue # <<>>
        THEN Continue(push_data_stack([s1 EXCEPT !.input_queue = Tail(@)], Head(s1.input_queue)))
        ELSE [s1 EXCEPT !.loc = "input_loop", !.ret = "None"]

\* Nibble::N14, a later pass through the loop
st_Input_loop(s) ==
    IF s.input_queue # <<>>
    THEN Continue(push_data_stack([s EXCEPT !.input_queue = Tail(@)], Head(s.input_queue)))
    ELSE s


\* Nibble::N2: the counter is assigned after two increments
st_Jump(s) ==
    LET s1 == increment(s)
        a1 == read_pcache(s1)
        s2 == increment(s1)
        a0 == read_pcache(s2)
        addr == (a0 + 16 * a1) % PAGE_SIZE
    IN  Continue(flush_flag_delay([s2 EXCEPT !.program_counter.counter = addr]))

\* Nibble::N4
st_Push(s) ==
    LET s1 == increment(s)
        reg == read_pcache(s1)
        s2 == increment(s1)
    IN  Continue(push_data_stack(s2, s2.registers[reg]))

\* u16::rotate_left
rotate_left(x, k) == ((x * (2 ^ k)) % WORD) + (x \div (2 ^ (16 - k)))

\* Nibble::N9
st_Rotate(s) ==
    LET s1 == increment(s)
        shift == read_pcache(s1)
        s2 == increment(s1)
        reg == read_pcache(s2)
        s3 == increment(s2)
    IN  Continue([s3 EXCEPT !.registers[reg] = rotate_left(@, shift)])

\* Nibble::N12
\* the program counter of the call itself is pushed
st_RomCall_saves_call_site(s) ==
    LET s1 == increment(s)
        page == read_pcache(s1)
        s2 == increment(s1)
        b == read_pcache(s2)
        s3 == increment(s2)
        a == read_pcache(s3)
        s4 == increment(s3)
        s5 == [s4 EXCEPT !.call_stack = Append(@, s.program_counter),
                         !.program_counter = [page |-> Rom(page),
                                              counter |-> (a + 16 * b) % PAGE_SIZE]]
    IN  Continue(flush_flag_delay(load_pache(s5)))

\* Nibble::N12
st_RomCall(s) ==
    LET s1 == increment(s)
        page == read_pcache(s1)
        s2 == increment(s1)
        b == read_pcache(s2)
        s3 == increment(s2)
        a == read_pcache(s3)
        s4 == increment(s3)
        s5 == [s4 EXCEPT !.call_stack = Append(@, s4.program_counter),
                         !.program_counter = [page |-> Rom(page),
                                              counter |-> (a + 16 * b) % PAGE_SIZE]]
    IN  Continue(flush_flag_delay(load_pache(s5)))

\* Nibble::N13
st_RamCall(s) ==
    LET s1 == increment(s)
        b == read_pcache(s1)
        s2 == increment(s1)
        a == read_pcache(s2)
        s3 == increment(s2)
        s4 == [s3 EXCEPT !.call_stack = Append(@, s3.program_counter)]
        addr == pop_value(s4)
        s5 == [pop_data_stack(s4) EXCEPT !.program_counter =
                                             [page |-> Ram(addr),
                                              counter |-> (a + 16 * b) % PAGE_SIZE]]
    IN  Continue(flush_flag_delay(load_pache(s5)))

\* the one element of a singleton set; `TheOne({e})` has e evaluated once
TheOne(S) == CHOOSE x \in S : TRUE

\* Nibble::N15, the loop over the nibbles of the path, run for at most `fuel`
\* iterations: an iteration reads the nibble at the counter, keeps its low
\* three bits, increments and is the last one (`done`) when the nibble has
\* bit 3 set.  `fuel` iterations are the first half of them and, unless the
\* loop has ended there, the rest.
RECURSIVE output_path(_, _, _)
output_path(s, octs, fuel) ==
    IF fuel <= 1
    THEN LET a == read_pcache(s)
         IN  [s |-> increment(s), octs |-> Append(octs, a % 8), done |-> a >= 8]
    ELSE TheOne({IF f.done THEN f ELSE output_path(f.s, f.octs, fuel - (fuel \div 2)) :
                     f \in {output_path(s, octs, fuel \div 2)}})

\* the loop breaks before the digit of the terminating nibble is kept
st_Output_drops_last_digit(s) ==
    LET p == output_path(increment(s), <<>>, 2 * PAGE_SIZE)
        v == pop_value(p.s)
    IN  Continue([pop_data_stack(p.s) EXCEPT
                      !.output = Append(@, [octs |-> SubSeq(p.octs, 1, Len(p.octs) - 1), v |-> v])])

\* Nibble::N15: every output target is called with the path and the popped
\* value; s.output is what one subscribed target has been called with
st_Output(s) ==
    LET p == output_path(increment(s), <<>>, 2 * PAGE_SIZE)
        v == pop_value(p.s)
    IN  Continue([pop_data_stack(p.s) EXCEPT !.output = Append(@, [octs |-> p.octs, v |-> v])])


(***************************************************************************)
(* layout_pages (compile.rs): the lines are put in page buckets and the     *)
(* labels of program pages in label_to_page.  The state is that of the loop *)
(* over the lines; current_section is the 1-based index of the bucket.      *)
(***************************************************************************)
NoLayoutError == [kind |-> "", line |-> -1, label |-> ""]
LayoutPagesError(kind, line, label) == [kind |-> kind, line |-> line, label |-> label]

\* AssemblyPageIdent::Data(n)
Data(n) == [kind |-> "Data", n |-> n]

layout_blank ==
    [ current_section |-> None,
      pages |-> <<>>,
      label_to_page |-> EmptyFn,
      ram_page_ident_counter |-> 0,
      data_page_ident_counter |-> 0,
      line_num |-> 0,
      page_i |-> 0,
      line_j |-> 0,
      result |-> "Running",
      error |-> NoLayoutError ]

\* layout_pages has not been called
NoLayout == [layout_blank EXCEPT !.result = "NotCalled"]

\* a second definition of a label replaces the first
layout_label_overwrites(s, cmd) ==
    IF cmd.op # "Label" THEN s
    ELSE IF ~IsSome(s.current_section)
    THEN Fail(s, LayoutPagesError("MissingPageStart", s.line_num, ""))
    ELSE LET page == s.pages[Unwrap(s.current_section)].ident
         IN  IF page.kind = "Data" THEN s
             ELSE [s EXCEPT !.label_to_page = Put(@, cmd.l, page)]

\* the `if let Line::Meta(Meta::Label(label))` at the head of the loop body
layout_label(s, cmd) ==
    IF cmd.op # "Label" THEN s
    ELSE IF ~IsSome(s.current_section)
    THEN Fail(s, LayoutPagesError("MissingPageStart", s.line_num, ""))
    ELSE LET page == s.pages[Unwrap(s.current_section)].ident
         IN  IF page.kind = "Data" THEN s
             ELSE IF Has(s.label_to_page, cmd.l)
             THEN Fail(s, LayoutPagesError("DuplicateLabel", s.line_num, cmd.l))
             ELSE [s EXCEPT !.label_to_page = Put(@, cmd.l, page)]

\* a new bucket is pushed and becomes the current section
layout_new_bucket(s, ident) ==
    [s EXCEPT !.current_section = Some(Len(s.pages) + 1),
              !.pages = Append(@, [ident |-> ident, lines |-> <<>>])]

\* a line before the first section is left out
layout_place_drops(s, cmd) ==
    IF ~Running(s) THEN s
    ELSE IF cmd.op = "RomPage" THEN layout_new_bucket(s, Rom(cmd.a))
    ELSE IF cmd.op = "RamPage"
    THEN [layout_new_bucket(s, Ram(s.ram_page_ident_counter))
             EXCEPT !.ram_page_ident_counter = @ + 1]
    ELSE IF cmd.op = "Data"
    THEN [layout_new_bucket(s, Data(s.data_page_ident_counter))
             EXCEPT !.data_page_ident_counter = @ + 1]
    ELSE IF ~IsSome(s.current_section) THEN s
    ELSE [s EXCEPT !.pages[Unwrap(s.current_section)].lines =
                       Append(@, [line |-> cmd, assembly_line_num |-> s.line_num])]

\* the `match &line.t` of the loop body
layout_place(s, cmd) ==
    IF ~Running(s) THEN s
    ELSE IF cmd.op = "RomPage" THEN layout_new_bucket(s, Rom(cmd.a))
    ELSE IF cmd.op = "RamPage"
    THEN [layout_new_bucket(s, Ram(s.ram_page_ident_counter))
             EXCEPT !.ram_page_ident_counter = @ + 1]
    ELSE IF cmd.op = "Data"
    THEN [layout_new_bucket(s, Data(s.data_page_ident_counter))
             EXCEPT !.data_page_ident_counter = @ + 1]
    ELSE IF ~IsSome(s.current_section)
    THEN Fail(s, LayoutPagesError("MissingPageStart", s.line_num, ""))
    ELSE [s EXCEPT !.pages[Unwrap(s.current_section)].lines =
                       Append(@, [line |-> cmd, assembly_line_num |-> s.line_num])]

\* one pass through the loop over assembly.lines_with_pos()
layout_line(s, cmd) ==
    LET t == layout_place(layout_label(s, cmd), cmd)
    IN  IF Running(t) THEN [t EXCEPT !.line_num = @ + 1] ELSE t

\* Ok(LayoutPagesSuccess { pages, label_to_page })
layout_success(s) == [s EXCEPT !.result = "Ok"]

(***************************************************************************)
(* The source text.  gen is the reader of the assembly file: the lines it   *)
(* has handed to compile_assembly so far (src) and the place in the text   *)
(* (stage, n lines into it).  Every specification below reads programs of   *)
(* one shape (mode).                                                        *)
(***************************************************************************)
Reader(mode, labels) ==
    [mode |-> mode, stage |-> "start", n |-> 0, src |-> <<>>, inputs |-> 0, labels |-> labels]

Rank(stage) ==
    CASE stage = "start" -> 0
      [] stage = "rom" -> 1
      [] stage = "prelude" -> 2
      [] stage = "setter" -> 3
      [] stage = "pass" -> 4
      [] stage = "useflags" -> 5
      [] stage = "gap" -> 6
      [] stage = "branch" -> 7
      [] stage = "tail" -> 8
      [] stage = "label" -> 9
      [] stage = "return" -> 10
      [] stage = "assembled" -> 11
      [] OTHER -> 12

\* a further line of stage `stage`, of which at most `max` follow each other
Upto(g, stage, max) == g.stage # stage \/ g.n < max

\* the stage a line of kind `kind` puts the reader of a flags program in:
\*   ..ROM 0, [VALUE | INPUT]*, [ADD | ALM1 | ALM2]*, PASS*,
\*   [.USEFLAGS, [PASS | ADD]*], [BRANCH c end, PASS*], .LABEL end, RETURN
\* (<<>> when the line cannot come here)
FlagsProgram(g, kind) ==
    LET r == Rank(g.stage)
    IN  CASE kind = "rom" -> IF r = 0 THEN <<"rom">> ELSE <<>>
          [] kind \in {"value", "input"} ->
                IF r \in 1..2 /\ Upto(g, "prelude", MaxPrelude) THEN <<"prelude">> ELSE <<>>
          [] kind \in {"alm1", "alm2"} ->
                IF r \in 1..3 /\ Upto(g, "setter", MaxSetters) THEN <<"setter">> ELSE <<>>
          [] kind = "add" ->
                IF r \in 1..3 /\ Upto(g, "setter", MaxSetters) THEN <<"setter">>
                ELSE IF r \in 5..6 /\ Upto(g, "gap", MaxGap) THEN <<"gap">>
                ELSE <<>>
          [] kind = "pass" ->
                IF r \in 1..4 /\ Upto(g, "pass", MaxPass) THEN <<"pass">>
                ELSE IF r \in 5..6 /\ Upto(g, "gap", MaxGap) THEN <<"gap">>
                ELSE IF r \in 7..8 /\ Upto(g, "tail", MaxTail) THEN <<"tail">>
                ELSE <<>>
          [] kind = "useflags" -> IF r \in 1..4 THEN <<"useflags">> ELSE <<>>
          [] kind = "branch" -> IF r \in 1..6 THEN <<"branch">> ELSE <<>>
          [] kind = "label" -> IF r \in 1..8 THEN <<"label">> ELSE <<>>
          [] kind = "return" -> IF r = 9 THEN <<"return">> ELSE <<>>
          [] kind = "finish" -> IF r = 10 THEN <<"assembled">> ELSE <<>>
          [] OTHER -> <<>>

Headers == {"RomPage", "RamPage", "Data"}
Uses == {"Jump", "Branch", "Call", "AddressValue"}
CountOf(g, ops) == Cardinality({i \in 1..Len(g.src) : g.src[i].op \in ops})

\* the stage a line of kind `kind` puts the reader of a pages program in: up to
\* MaxSections sections ..ROM n | ..RAM | ..DATA, each an optional filler
\* (RAW / ALLOC of Filler nibbles / words) and up to MaxPageLines lines that
\* define or use a label, with MaxUses uses in the whole program
PagesProgram(g, kind) ==
    LET in_section == g.stage \in {"head", "fill", "line"}
    IN  CASE kind \in {"rom", "ram", "data"} ->
                IF g.stage # "assembled" /\ CountOf(g, Headers) < MaxSections
                THEN <<"head">> ELSE <<>>
          [] kind = "fill" -> IF g.stage = "head" THEN <<"fill">> ELSE <<>>
          [] kind = "label" ->
                IF in_section /\ Upto(g, "line", MaxPageLines) THEN <<"line">> ELSE <<>>
          [] kind \in {"jump", "branch", "call", "address"} ->
                IF in_section /\ Upto(g, "line", MaxPageLines) /\ CountOf(g, Uses) < MaxUses
                THEN <<"line">> ELSE <<>>
          [] kind = "finish" -> IF in_section THEN <<"assembled">> ELSE <<>>
          [] OTHER -> <<>>

\* the stage a line of kind `kind` puts the reader of a full-page program in:
\* ..ROM 0, a RAW that fills the page up to MaxSlack nibbles short of its end
\* or one past it, then up to MaxFullLines instructions and labels
RomFullProgram(g, kind) ==
    CASE kind = "rom" -> IF g.stage = "start" THEN <<"head">> ELSE <<>>
      [] kind = "fill" -> IF g.stage = "head" THEN <<"fill">> ELSE <<>>
      [] kind \in {"pass", "value", "add", "alm1", "alm2", "jump", "call", "label"} ->
            IF g.stage \in {"fill", "line"} /\ Upto(g, "line", MaxFullLines)
            THEN <<"line">> ELSE <<>>
      [] kind = "finish" -> IF g.stage \in {"fill", "line"} THEN <<"assembled">> ELSE <<>>
      [] OTHER -> <<>>

\* the stage a line of kind `kind` puts the reader of a full-RAM program in:
\* ..DATA, [.LABEL d], an ALLOC that fills the plane up to MaxSlack words
\* short of its end or one past it, then up to MaxFullLines data lines
RamFullProgram(g, kind) ==
    CASE kind = "data" -> IF g.stage = "start" THEN <<"head">> ELSE <<>>
      [] kind = "fill" -> IF g.stage \in {"head", "named"} THEN <<"fill">> ELSE <<>>
      [] kind = "label" ->
            IF g.stage = "head" THEN <<"named">>
            ELSE IF g.stage \in {"fill", "line"} /\ Upto(g, "line", MaxFullLines)
            THEN <<"line">> ELSE <<>>
      [] kind \in {"value", "alloc", "address"} ->
            IF g.stage \in {"fill", "line"} /\ Upto(g, "line", MaxFullLines)
            THEN <<"line">> ELSE <<>>
      [] kind = "finish" -> IF g.stage \in {"fill", "line"} THEN <<"assembled">> ELSE <<>>
      [] OTHER -> <<>>

\* the stage a line of kind `kind` puts the reader of an output program in:
\* ..ROM 0, then up to MaxOutputs lines PASS | OUTPUT path
OutputProgram(g, kind) ==
    CASE kind = "rom" -> IF g.stage = "start" THEN <<"head">> ELSE <<>>
      [] kind \in {"pass", "output"} ->
            IF g.stage \in {"head", "line"} /\ Upto(g, "line", MaxOutputs)
            THEN <<"line">> ELSE <<>>
      [] kind = "finish" -> IF g.stage \in {"head", "line"} THEN <<"assembled">> ELSE <<>>
      [] OTHER -> <<>>

\* the stage a line of kind `kind` puts the reader of a data program in:
\*   ..ROM 0, VALUE d, POP %r, RETURN, [..RAM, RAW], ..DATA,
\*   [VALUE | ALLOC]*, .LABEL d, [VALUE | ALLOC]*
\* with up to MaxDataHead lines before the label and MaxDataWords after it
DataProgram(g, kind) ==
    CASE kind = "rom" -> IF g.stage = "start" THEN <<"head">> ELSE <<>>
      [] kind = "address" -> IF g.stage = "head" THEN <<"pushed">> ELSE <<>>
      [] kind = "pop" -> IF g.stage = "pushed" THEN <<"popped">> ELSE <<>>
      [] kind = "return" -> IF g.stage = "popped" THEN <<"return">> ELSE <<>>
      [] kind = "ram" -> IF g.stage = "return" THEN <<"ramhead">> ELSE <<>>
      [] kind = "fill" -> IF g.stage = "ramhead" THEN <<"ramfill">> ELSE <<>>
      [] kind = "data" -> IF g.stage \in {"return", "ramfill"} THEN <<"datahead">> ELSE <<>>
      [] kind \in {"value", "alloc"} ->
            IF g.stage \in {"datahead", "before"} /\ Upto(g, "before", MaxDataHead)
            THEN <<"before">>
            ELSE IF g.stage \in {"named", "after"} /\ Upto(g, "after", MaxDataWords)
            THEN <<"after">>
            ELSE <<>>
      [] kind = "label" -> IF g.stage \in {"datahead", "before"} THEN <<"named">> ELSE <<>>
      [] kind = "finish" -> IF g.stage \in {"named", "after"} THEN <<"assembled">> ELSE <<>>
      [] OTHER -> <<>>

\* the stage a line of kind `kind` puts the reader of a driver program in:
\*   ..ROM 0, [VALUE], PASS*, [CALL f], RETURN, .LABEL f, RETURN
\* with up to MaxDriverPass PASS lines
DriverProgram(g, kind) ==
    LET main == g.stage \in {"head", "pushed", "pass"}
    IN  CASE kind = "rom" -> IF g.stage = "start" THEN <<"head">> ELSE <<>>
          [] kind = "value" -> IF g.stage = "head" THEN <<"pushed">> ELSE <<>>
          [] kind = "pass" -> IF main /\ Upto(g, "pass", MaxDriverPass) THEN <<"pass">> ELSE <<>>
          [] kind = "call" -> IF main THEN <<"called">> ELSE <<>>
          [] kind = "return" ->
                IF main \/ g.stage = "called" THEN <<"return">>
                ELSE IF g.stage = "label" THEN <<"sub">>
                ELSE <<>>
          [] kind = "label" -> IF g.stage = "return" THEN <<"label">> ELSE <<>>
          [] kind = "finish" -> IF g.stage = "sub" THEN <<"assembled">> ELSE <<>>
          [] OTHER -> <<>>

\* the stage a line of kind `kind` puts the reader of a snapshot program in:
\* ..ROM 0, then up to MaxSnapLines lines, in any order, of
\*   PASS | VALUE | ADD | .USEFLAGS | BRANCH a | .LABEL a | CALL a | JUMP a | RETURN
SnapshotProgram(g, kind) ==
    CASE kind = "rom" -> IF g.stage = "start" THEN <<"head">> ELSE <<>>
      [] kind \in {"pass", "value", "add", "useflags", "branch", "label", "call", "jump",
                   "return"} ->
            IF g.stage \in {"head", "line"} /\ Upto(g, "line", MaxSnapLines)
            THEN <<"line">> ELSE <<>>
      [] OTHER -> <<>>

NextStage(g, kind) ==
    CASE g.mode = "flags" -> FlagsProgram(g, kind)
      [] g.mode = "snapshot" -> SnapshotProgram(g, kind)
      [] g.mode = "driver" -> DriverProgram(g, kind)
      [] g.mode = "data" -> DataProgram(g, kind)
      [] g.mode = "output" -> OutputProgram(g, kind)
      [] g.mode = "pages" -> PagesProgram(g, kind)
      [] g.mode = "romfull" -> RomFullProgram(g, kind)
      [] g.mode = "ramfull" -> RamFullProgram(g, kind)
      [] OTHER -> <<>>

Allows(g, kind) == NextStage(g, kind) # <<>>

Advance(g, kind, cmd) ==
    LET to == NextStage(g, kind)[1]
    IN  [g EXCEPT !.stage = to,
                  !.n = IF to = g.stage THEN g.n + 1 ELSE 1,
                  !.src = Append(@, cmd)]

\* the operands the programs are written with
RomChoices(g) == IF g.mode = "pages" THEN {0, 1} ELSE {0}
ValueChoices(g) == IF g.mode \in {"flags", "data"} THEN {Some(1), Some(WORD - 1)} ELSE {Some(1)}
Alm1Choices(g) == IF g.mode = "flags" THEN {op \in 0..15 : Alm1SetsFlags(op)} ELSE {1}
Alm2Choices(g) == IF g.mode = "flags" THEN {op \in 0..15 : Alm2SetsFlags(op)} ELSE {1}
RawChoices(g) ==
    IF g.mode = "romfull" THEN (PAGE_SIZE - MaxSlack)..(PAGE_SIZE + 1)
    ELSE IF g.mode = "data" THEN {1, 6}
    ELSE {Filler}
AllocChoices(g) ==
    IF g.mode = "ramfull"
    THEN IF g.stage \in {"head", "named"} THEN (RAM_SIZE - MaxSlack)..(RAM_SIZE + 1) ELSE 0..2
    ELSE IF g.mode = "data" THEN {1, 4}
    ELSE {Filler}
CondChoices(g) == IF g.mode = "flags" THEN {1, 2} ELSE {2}
DataLabels == {"d"}
InputChoices == {0, WORD - 1}

\* no driver of the GUI holds the simulator
NoDriver ==
    [kind |-> "none", end_state |-> None, run_thread |-> "none", thread_result |-> None,
     run_result |-> None, queried |-> None, stop |-> FALSE, batch |-> 0, seen |-> <<>>,
     instructions_to_do |-> 0, asked |-> 0]

NoAlu ==
    [a |-> 0, b |-> 0, cin |-> FALSE, done |-> FALSE, s |-> 0,
     flags |-> AluFlags(FALSE, FALSE, FALSE, FALSE)]

\* the operands add_with_flags is tried on: around 0, 2^15 and 2^16 - 1, and
\* the two alternating bit patterns
AluSamples ==
    (0..MaxSmall) \cup ((HALF - 1 - MaxSmall)..(HALF + MaxSmall))
    \cup ((WORD - 1 - MaxSmall)..(WORD - 1)) \cup {21845, 43690}

(***************************************************************************)
(* compile_assembly, one line of the source per step                        *)
(***************************************************************************)
\* one pass through the loop over the lines of a program section
ProgLine(kind, cmd, t) ==
    /\ Running(asm)
    /\ asm.section = "Prog"
    /\ Allows(gen, kind)
    /\ asm' = line_done(asm, t, cmd)
    /\ gen' = Advance(gen, kind, cmd)
    /\ UNCHANGED <<sim, alu, lay, drv>>

LineRomPage ==
    \E n \in RomChoices(gen) :
        /\ Running(asm)
        /\ Allows(gen, "rom")
        /\ asm' = section_Rom(asm, n)
        /\ gen' = Advance(gen, "rom", Cmd("RomPage", n, 0, ""))
        /\ UNCHANGED <<sim, alu, lay, drv>>

LinePass == ProgLine("pass", Cmd("Pass", 0, 0, ""), cmd_Pass(asm))

LineValue ==
    \E v \in ValueChoices(gen) :
        ProgLine("value", Cmd("Value", IF IsSome(v) THEN Unwrap(v) ELSE -1, 0, ""), cmd_Value(asm, v))

LineInput == ProgLine("input", Cmd("Input", 0, 0, ""), cmd_Input(asm))

LineAdd == ProgLine("add", Cmd("Add", 0, 0, ""), cmd_Add(asm, 0))

LineAlm1 ==
    \E op \in Alm1Choices(gen) : ProgLine("alm1", Cmd("Alm1", op, 0, ""), cmd_Alm1(asm, op))

LineAlm2 ==
    \E op \in Alm2Choices(gen) : ProgLine("alm2", Cmd("Alm2", op, 0, ""), cmd_Alm2(asm, op, 0))

LineUseFlags == ProgLine("useflags", Cmd("UseFlags", 0, 0, ""), meta_UseFlags(asm))

LineBranch ==
    \E c \in CondChoices(gen), l \in gen.labels :
        ProgLine("branch", Cmd("Branch", c, 0, l), cmd_Branch(asm, c, l))

\* layout_pages has put the label in label_to_page with the page of the
\* section that defines it, and has found no second definition
LineLabel ==
    \E l \in gen.labels :
        /\ Has(asm.label_to_page, l)
        /\ asm.label_to_page[l] = asm.page_ident
        /\ ~Has(asm.labelled_page_locations, l)
        /\ ProgLine("label", Cmd("Label", 0, 0, l), meta_Label(asm, l))

LineReturn == ProgLine("return", Cmd("Return", 0, 0, ""), cmd_Return(asm))

\* the end of the source: the last section is closed and the fixups written
Finish ==
    /\ Running(asm)
    /\ Allows(gen, "finish")
    /\ \A l \in DOMAIN asm.label_to_page : Has(asm.labelled_page_locations, l)
    /\ asm' = compile_finish(asm)
    /\ gen' = Advance(gen, "finish", Cmd("End", 0, 0, ""))
    /\ UNCHANGED <<sim, alu, lay, drv>>


(***************************************************************************)
(* The simulator runs the assembled program: Simulator::new, then step      *)
(* after step as Simulator::run and the GUI's drivers call it, until Finish *)
(***************************************************************************)
Load ==
    /\ gen.stage = "assembled"
    /\ asm.result = "Ok"
    /\ ~sim.live
    /\ sim' = Simulator_new(asm.program_memory)
    /\ gen' = [gen EXCEPT !.stage = "running"]
    /\ UNCHANGED <<asm, alu, lay, drv>>

\* step is called and fetches `opcode`
Fetches(opcode) ==
    /\ sim.live
    /\ sim.loc = "idle"
    /\ sim.ret # "Finish"
    /\ read_pcache(sim) = opcode

Step(opcode, after) ==
    /\ Fetches(opcode)
    /\ sim' = [after EXCEPT !.last_op = opcode]
    /\ UNCHANGED <<gen, asm, alu, lay, drv>>

StepPass == Step(0, st_Pass(sim))
StepValue == Step(1, st_Value(sim))
StepBranch == Step(3, st_Branch(sim))
StepReturn == Step(7, st_Return(sim))
StepAdd == Step(8, st_Add(sim))
StepAlm1 == Step(10, st_Alm1(sim))
StepAlm2 == Step(11, st_Alm2(sim))
StepInput == Step(14, st_Input(sim))

\* the thread inside step wakes up from sleep(10ms) and looks again
StepInputLoop ==
    /\ sim.live
    /\ sim.loc = "input_loop"
    /\ sim' = st_Input_loop(sim)
    /\ sim' # sim
    /\ UNCHANGED <<gen, asm, alu, lay, drv>>

\* another thread pushes a value on the shared InputQueue
InputPush ==
    \E v \in InputChoices :
        /\ sim.live
        /\ sim.ret # "Finish"
        /\ gen.inputs < MaxInputs
        /\ sim' = [sim EXCEPT !.input_queue = Append(@, v)]
        /\ gen' = [gen EXCEPT !.inputs = @ + 1]
        /\ UNCHANGED <<asm, alu, lay, drv>>

(***************************************************************************)
(* Spec: a flags program is assembled and run                               *)
(***************************************************************************)
Init ==
    /\ gen = Reader("flags", {"end"})
    /\ asm = compile_blank([l \in {"end"} |-> Rom(0)])
    /\ sim = NoSimulator
    /\ alu = NoAlu
    /\ lay = NoLayout
    /\ drv = NoDriver

Next ==
    \/ LineRomPage
    \/ LinePass
    \/ LineValue
    \/ LineInput
    \/ LineAdd
    \/ LineAlm1
    \/ LineAlm2
    \/ LineUseFlags
    \/ LineBranch
    \/ LineLabel
    \/ LineReturn
    \/ Finish
    \/ Load
    \/ StepPass
    \/ StepValue
    \/ StepBranch
    \/ StepReturn
    \/ StepAdd
    \/ StepAlm1
    \/ StepAlm2
    \/ StepInput
    \/ StepInputLoop
    \/ InputPush

Spec == Init /\ [][Next]_vars


(***************************************************************************)
(* Properties of Spec                                                       *)
(***************************************************************************)
\* the CompiledLine of assembly line n in ROM page 0
CompiledLineOf(n) ==
    LET lines == asm.rom_lines[0]
    IN  lines[CHOOSE i \in 1..Len(lines) : lines[i].assembly_line_num = n]

\* the compiled BRANCH lines paired with a .USEFLAGS whose opcode is at offset o
\* (the padding comes first, the four nibbles of the branch last)
PairedBranchesAt(o) ==
    LET lines == asm.rom_lines[0]
    IN  {i \in 1..Len(lines) : /\ lines[i].cmd.op = "Branch"
                               /\ lines[i].page_end - 4 = o
                               /\ Has(asm.branch_lines, lines[i].assembly_line_num)}

\* the offsets of the instructions in the snapshot of the .USEFLAGS paired with
\* the compiled line i
SnapshotOffsets(i) ==
    LET srcs == asm.useflag_lines[asm.branch_lines[asm.rom_lines[0][i].assembly_line_num]]
    IN  {CompiledLineOf(srcs[j]).page_start : j \in 1..Len(srcs)}

\* C1: whenever the simulator fetches the opcode of a BRANCH that the assembler
\* accepted together with a .USEFLAGS, the oldest entry of the flag delay
\* queue, which the condition is evaluated against, is the flags produced by
\* the flag-setting instruction of the .USEFLAGS snapshot.
C1_BranchTestsSnapshotFlags ==
    Fetches(3) =>
        \A i \in PairedBranchesAt(sim.program_counter.counter) :
            SnapshotOffsets(i) # {} =>
                \E o \in SnapshotOffsets(i) :
                    Has(sim.produced, o) /\ branch_flags(sim) = sim.produced[o]

\* a paired BRANCH is fetched after the instruction of its snapshot has run
C1_PairedBranchFetched ==
    /\ Fetches(3)
    /\ \E i \in PairedBranchesAt(sim.program_counter.counter) :
           \E o \in SnapshotOffsets(i) : Has(sim.produced, o)

BranchTarget(s) ==
    16 * s.pcache[(s.program_counter.counter + 2) % PAGE_SIZE]
    + s.pcache[(s.program_counter.counter + 3) % PAGE_SIZE]

\* what Branch may not touch: everything but the queue and pc.counter
BranchFrame(s) ==
    [s EXCEPT !.program_counter.counter = 0, !.ret = "", !.last_op = 0,
              !.flags_delay = <<>>]

\* C3: a step that executes BRANCH leaves all 6 entries of the flag delay queue
\* equal to the ALU flags, which it does not change, whether or not the branch
\* is taken; apart from the queue only pc.counter changes, to the target or to
\* the next instruction.
C3_BranchFlushesEitherWay ==
    [][StepBranch =>
          /\ sim'.flags = sim.flags
          /\ sim'.flags_delay = [i \in 1..FLAG_DELAY |-> sim.flags]
          /\ BranchFrame(sim') = BranchFrame(sim)
          /\ sim'.program_counter.counter \in
                 {(sim.program_counter.counter + 4) % PAGE_SIZE, BranchTarget(sim)}]_vars

\* a BRANCH over a PASS has just been taken, after the flags were changed
C3_BranchTaken ==
    /\ sim.live
    /\ sim.last_op = 3
    /\ ~sim.flags.zero
    /\ \E i \in 1..(Len(gen.src) - 1) : gen.src[i].op = "Branch" /\ gen.src[i + 1].op = "Pass"
    /\ sim.program_counter.counter = asm.labelled_page_locations["end"].ptr
    /\ sim.flags_delay = [i \in 1..FLAG_DELAY |-> sim.flags]

\* C4: a step that fetches INPUT while the input queue is empty returns
\* WaitingForInput to its caller and leaves pc and the rest of the simulator
\* as they were.
C4_InputReturnsWaiting ==
    [][(StepInput /\ sim.input_queue = <<>>) =>
          /\ sim'.ret = "WaitingForInput"
          /\ sim'.loc = "idle"
          /\ sim'.program_counter = sim.program_counter
          /\ [sim' EXCEPT !.ret = "", !.last_op = 0] = [sim EXCEPT !.ret = "", !.last_op = 0]]_vars

\* step is inside the Input arm, asleep, with pc already past the opcode
C4_BlockedInStep ==
    /\ sim.live
    /\ sim.loc = "input_loop"
    /\ sim.input_queue = <<>>
    /\ sim.pcache[(sim.program_counter.counter + PAGE_SIZE - 1) % PAGE_SIZE] = 14

\* ..ROM 0 / ADD %0 / PASS x 7 / .USEFLAGS / BRANCH Z end
C10Program ==
    <<Cmd("RomPage", 0, 0, ""), Cmd("Add", 0, 0, "")>>
    \o [i \in 1..7 |-> Cmd("Pass", 0, 0, "")]
    \o <<Cmd("UseFlags", 0, 0, ""), Cmd("Branch", 2, 0, "end")>>

\* C10 as stated: ADD %0, seven PASS, .USEFLAGS, BRANCH Z end fails with
\* BadUseflagsWithBranch.
C10_SevenPassRejected ==
    gen.src = C10Program => asm.result = "Err" /\ asm.error.kind = "BadUseflagsWithBranch"

\* C10 amended: ADD %0, seven PASS, .USEFLAGS, BRANCH Z end is accepted: the
\* BRANCH is compiled to its four nibbles with no PASS padding and is recorded
\* in branch_lines as paired with the .USEFLAGS line.
C10_SevenPassAccepted ==
    gen.src = C10Program =>
        /\ Running(asm)
        /\ LET b == asm.page_lines[Len(asm.page_lines)]
           IN  /\ b.cmd.op = "Branch"
               /\ b.page_end - b.page_start = 4
               /\ Has(asm.branch_lines, b.assembly_line_num)
               /\ asm.branch_lines[b.assembly_line_num] = b.assembly_line_num - 1

\* the BRANCH of that program has been compiled
C10_SevenPassCompiled ==
    /\ gen.src = C10Program
    /\ asm.result # "Panic"
    /\ asm.line_num = Len(C10Program) \/ asm.result = "Err"


(***************************************************************************)
(* SpecAlu: add_with_flags is called on one triple of arguments             *)
(***************************************************************************)
InitAlu ==
    /\ gen = Reader("alu", {})
    /\ asm = compile_blank(EmptyFn)
    /\ sim = NoSimulator
    /\ lay = NoLayout
    /\ drv = NoDriver
    /\ \E a \in AluSamples, b \in AluSamples, cin \in BOOLEAN :
           alu = [NoAlu EXCEPT !.a = a, !.b = b, !.cin = cin]

CallAddWithFlags ==
    /\ ~alu.done
    /\ LET r == add_with_flags(alu.a, alu.b, alu.cin)
       IN  alu' = [alu EXCEPT !.done = TRUE, !.s = r.s, !.flags = r.flags]
    /\ UNCHANGED <<gen, asm, sim, lay, drv>>

NextAlu == CallAddWithFlags

SpecAlu == InitAlu /\ [][NextAlu]_vars

Bit15(x) == (x \div HALF) % 2 = 1

CarryIn(cin) == IF cin THEN 1 ELSE 0

\* C2: add_with_flags(a, b, cin) returns s = (a + b + cin) mod 2^16 with
\* zero = (s = 0), negative = bit 15 of s, carry = bit 16 of a + b + cin, and
\* overflow = carry XOR the carry into bit 15 (which is bit 15 of a XOR bit 15
\* of b XOR bit 15 of s).
C2_AddWithFlags ==
    alu.done =>
        LET total == alu.a + alu.b + CarryIn(alu.cin)
            carry_into_15 == (Bit15(alu.a) # Bit15(alu.b)) # Bit15(alu.s)
        IN  /\ alu.s = total % WORD
            /\ alu.flags.zero = (alu.s = 0)
            /\ alu.flags.negative = Bit15(alu.s)
            /\ alu.flags.carry = (total >= WORD)
            /\ alu.flags.overflow = (alu.flags.carry # carry_into_15)

\* add_with_flags has returned for operands whose sum carries into bit 15 only
\* because of the carry-in, which overflows
C2_CarryInOverflows ==
    /\ alu.done
    /\ alu.a = HALF - 1
    /\ alu.b = 0
    /\ alu.cin
    /\ alu.flags.overflow
    /\ alu.flags.negative


(***************************************************************************)
(* The lines of a pages program                                             *)
(***************************************************************************)
LineRamPage ==
    /\ Running(asm)
    /\ Allows(gen, "ram")
    /\ asm' = section_Ram(asm)
    /\ gen' = Advance(gen, "ram", Cmd("RamPage", 0, 0, ""))
    /\ UNCHANGED <<sim, alu, lay, drv>>

LineData ==
    /\ Running(asm)
    /\ Allows(gen, "data")
    /\ asm' = section_Data(asm)
    /\ gen' = Advance(gen, "data", Cmd("Data", 0, 0, ""))
    /\ UNCHANGED <<sim, alu, lay, drv>>

\* RAW of k nibbles 0
LineRaw ==
    \E k \in RawChoices(gen) :
        ProgLine("fill", Cmd("Raw", k, 0, ""), cmd_Raw(asm, [i \in 1..k |-> 0]))

LineJump ==
    \E l \in gen.labels : ProgLine("jump", Cmd("Jump", 0, 0, l), cmd_Jump(asm, l))

LineCall ==
    \E l \in gen.labels : ProgLine("call", Cmd("Call", 0, 0, l), cmd_Call(asm, l))

LineAddressValue ==
    \E l \in DataLabels :
        ProgLine("address", Cmd("AddressValue", 0, 0, l), cmd_AddressValue(asm, l))

\* one pass through the loop over the lines of a data section
DataLine(kind, cmd, t) ==
    /\ Running(asm)
    /\ asm.section = "Data"
    /\ Allows(gen, kind)
    /\ asm' = data_line_done(t)
    /\ gen' = Advance(gen, kind, cmd)
    /\ UNCHANGED <<sim, alu, lay, drv>>

\* the ALLOC that fills
DataFill ==
    \E n \in AllocChoices(gen) :
        DataLine("fill", Cmd("Alloc", n, 0, ""), data_Alloc(asm, Some(n)))

DataLabel ==
    \E l \in DataLabels : DataLine("label", Cmd("Label", 0, 0, l), data_Label(asm, l))

DataAddressValue ==
    \E l \in DataLabels :
        DataLine("address", Cmd("AddressValue", 0, 0, l), data_AddressValue(asm, l))

(***************************************************************************)
(* SpecPages: a pages program is assembled.  layout_pages has run over the  *)
(* whole text before compile_assembly starts: label_to_page is its result.  *)
(***************************************************************************)
PageIdents == {Rom(n) : n \in {0, 1}} \cup {Ram(k) : k \in {0, 1}}

InitPages ==
    /\ gen = Reader("pages", {"f"})
    /\ \E known \in SUBSET {"f"} : \E l2p \in [known -> PageIdents] :
           asm = compile_blank(l2p)
    /\ sim = NoSimulator
    /\ alu = NoAlu
    /\ lay = NoLayout
    /\ drv = NoDriver

NextPages ==
    \/ LineRomPage
    \/ LineRamPage
    \/ LineData
    \/ LineRaw
    \/ LineJump
    \/ LineBranch
    \/ LineCall
    \/ LineAddressValue
    \/ LineLabel
    \/ DataFill
    \/ DataLabel
    \/ DataAddressValue
    \/ Finish

SpecPages == InitPages /\ [][NextPages]_vars


(***************************************************************************)
(* Properties of SpecPages                                                  *)
(***************************************************************************)
Last(seq) == seq[Len(seq)]

\* the nibble written at offset o of the page at `page` (a PageLocation), -1
\* if none was
CellAt(a, page, o) ==
    IF page.kind = "Rom"
    THEN IF Has(a.memory.rom_pages, <<page.n, o>>) THEN a.memory.rom_pages[<<page.n, o>>] ELSE -1
    ELSE IF IsSome(RamCell(a.memory.ram, 4 * page.n + o))
         THEN Unwrap(RamCell(a.memory.ram, 4 * page.n + o)) ELSE -1

CellsAt(a, page, o, n) == [i \in 1..n |-> CellAt(a, page, o + i - 1)]

Digits2(v) == <<(v \div 16) % 16, v % 16>>
Digits4(v) == <<(v \div 4096) % 16, (v \div 256) % 16, (v \div 16) % 16, v % 16>>

\* the compiled lines of the program with the page (PageIdent) they are in
CompiledLines(a) ==
    UNION {{[page |-> Rom(n), line |-> a.rom_lines[n][i]] : i \in 1..Len(a.rom_lines[n])} :
              n \in 0..(ROM_PAGES - 1)}
    \cup UNION {{[page |-> Ram(k - 1), line |-> a.ram_lines[k][i]] : i \in 1..Len(a.ram_lines[k])} :
                   k \in 1..Len(a.ram_lines)}

\* where the page with PageIdent `page` is in memory
LocationOf(a, page) ==
    IF page.kind = "Rom" THEN page ELSE Ram(a.ram_pages[page.n + 1].start)

JumpsStayInPage(a) ==
    \A c \in CompiledLines(a) :
        c.line.cmd.op \in {"Jump", "Branch"} => a.label_to_page[c.line.cmd.l] = c.page

\* C7: a JUMP L or BRANCH c L in page P whose label layout_pages put in another
\* page makes compile_assembly return JumpOrBranchToOtherPage with the line of
\* the instruction; one whose label is in P (in any section of P) does not;
\* and in a program that was assembled every JUMP and BRANCH targets a label
\* of its own page.
C7_JumpBranchSamePage ==
    [][(gen'.src # gen.src /\ Last(gen'.src).op \in {"Jump", "Branch"}
            /\ Has(asm.label_to_page, Last(gen'.src).l))
         => /\ IF asm.label_to_page[Last(gen'.src).l] = asm.page_ident
               THEN asm'.error.kind # "JumpOrBranchToOtherPage"
               ELSE /\ asm'.result = "Err"
                    /\ asm'.error.kind = "JumpOrBranchToOtherPage"
                    /\ asm'.error.line = asm.line_num
            /\ JumpsStayInPage(asm')]_vars

\* a BRANCH in ROM page 1 to a label defined in ROM page 0 has been rejected
C7_BranchToOtherPageRejected ==
    /\ asm.result = "Err"
    /\ asm.error.kind = "JumpOrBranchToOtherPage"
    /\ Last(gen.src).op = "Branch"
    /\ asm.page_ident = Rom(1)
    /\ Has(asm.labelled_page_locations, "f")
    /\ asm.label_to_page["f"] = Rom(0)

\* the encoding of the compiled CALL line c
CallEncoded(a, c) ==
    LET o == c.line.page_start
        length == c.line.page_end - o
        target == a.label_to_page[c.line.cmd.l]
        local == Digits2(a.labelled_page_locations[c.line.cmd.l].ptr)
        at == LocationOf(a, c.page)
    IN  IF target = c.page
        THEN length = 3 /\ CellsAt(a, at, o, 3) = <<6>> \o local
        ELSE IF target.kind = "Rom"
        THEN length = 4 /\ CellsAt(a, at, o, 4) = <<12, target.n>> \o local
        ELSE /\ length = 8
             /\ CellsAt(a, at, o, 8) =
                    <<1>> \o Digits4(a.ram_pages[target.n + 1].start) \o <<13>> \o local

\* C8: in an assembled program every CALL L is, when L is in the caller's
\* page, opcode 6 and the 2-nibble local target; when L is in another ROM page
\* p, opcode 12, p, and the local target; when L is in another RAM page k,
\* opcode 1, the four nibbles of the base word address of page k, opcode 13
\* and the local target.  No CALL fails with JumpOrBranchToOtherPage.
C8_CallEncoding ==
    /\ (asm.result = "Err" /\ Last(gen.src).op = "Call") =>
           asm.error.kind # "JumpOrBranchToOtherPage"
    /\ asm.result = "Ok" =>
           \A c \in CompiledLines(asm) : c.line.cmd.op = "Call" => CallEncoded(asm, c)

\* a CALL from a ROM page into a RAM page that does not start at word 0 has
\* been assembled
C8_CallIntoRamPage ==
    /\ asm.result = "Ok"
    /\ \E c \in CompiledLines(asm) :
           /\ c.line.cmd.op = "Call"
           /\ c.page.kind = "Rom"
           /\ asm.label_to_page[c.line.cmd.l].kind = "Ram"
           /\ asm.ram_pages[asm.label_to_page[c.line.cmd.l].n + 1].start # 0

\* C9: after a successful finish every 2-nibble label fixup slot holds the
\* page offset of its label, high nibble at slot and low nibble at slot+1,
\* and every 4-nibble slot (RAM page base, RAM data label) holds the 16-bit
\* word address most significant nibble first, wherever the label or page is
\* defined in the source.
C9_FixupsHighNibbleFirst ==
    asm.result = "Ok" =>
        /\ \A i \in 1..Len(asm.labelled_page_location_targets) :
               LET t == asm.labelled_page_location_targets[i]
               IN  CellsAt(asm, t.page, t.ptr, 2) = Digits2(asm.labelled_page_locations[t.label].ptr)
        /\ \A i \in 1..Len(asm.ram_page_targets) :
               LET t == asm.ram_page_targets[i]
               IN  CellsAt(asm, t.page, t.ptr, 4) = Digits4(asm.ram_pages[t.ident + 1].start)
        /\ \A i \in 1..Len(asm.labelled_ram_address_targets) :
               LET t == asm.labelled_ram_address_targets[i]
                   at == IF t.ptr.kind = "Rom" THEN Rom(t.ptr.page) ELSE Ram(0)
               IN  CellsAt(asm, at, t.ptr.addr, 4) = Digits4(asm.labelled_ram_addresses[t.label])

\* a program was assembled in which a label is used before the line that
\* defines it, at an offset with two different non-zero nibbles
C9_ForwardReferenceResolved ==
    /\ asm.result = "Ok"
    /\ Len(asm.labelled_page_location_targets) > 0
    /\ Has(asm.labelled_page_locations, "f")
    /\ asm.labelled_page_locations["f"].ptr = Filler
    /\ \E i \in 1..Len(gen.src) : \E j \in (i + 1)..Len(gen.src) :
           gen.src[i].op \in {"Jump", "Branch", "Call"} /\ gen.src[j] = Cmd("Label", 0, 0, "f")


(***************************************************************************)
(* SpecRomFull: a program that fills ROM page 0 is assembled                *)
(***************************************************************************)
InitRomFull ==
    /\ gen = Reader("romfull", {"f"})
    /\ asm = compile_blank([l \in {"f"} |-> Rom(0)])
    /\ sim = NoSimulator
    /\ alu = NoAlu
    /\ lay = NoLayout
    /\ drv = NoDriver

NextRomFull ==
    \/ LineRomPage
    \/ LineRaw
    \/ LinePass
    \/ LineValue
    \/ LineAdd
    \/ LineAlm1
    \/ LineAlm2
    \/ LineJump
    \/ LineCall
    \/ LineLabel
    \/ Finish

SpecRomFull == InitRomFull /\ [][NextRomFull]_vars

(***************************************************************************)
(* SpecRamFull: a data section that fills the RAM plane is assembled        *)
(***************************************************************************)
DataValue ==
    \E v \in ValueChoices(gen) :
        DataLine("value", Cmd("Value", Unwrap(v), 0, ""), data_Value(asm, v))

DataAlloc ==
    \E n \in AllocChoices(gen) :
        DataLine("alloc", Cmd("Alloc", n, 0, ""), data_Alloc(asm, Some(n)))

InitRamFull ==
    /\ gen = Reader("ramfull", {})
    /\ asm = compile_blank(EmptyFn)
    /\ sim = NoSimulator
    /\ alu = NoAlu
    /\ lay = NoLayout
    /\ drv = NoDriver

NextRamFull ==
    \/ LineData
    \/ DataFill
    \/ DataLabel
    \/ DataValue
    \/ DataAlloc
    \/ DataAddressValue
    \/ Finish

SpecRamFull == InitRamFull /\ [][NextRamFull]_vars


(***************************************************************************)
(* Properties of SpecRomFull and SpecRamFull                                *)
(***************************************************************************)
\* the nibbles the line emits when it is compiled in the page of its label
NibblesOf(cmd) ==
    CASE cmd.op = "Pass" -> 1
      [] cmd.op = "Value" -> 5
      [] cmd.op = "Add" -> 2
      [] cmd.op = "Alm1" -> 2
      [] cmd.op = "Alm2" -> 3
      [] cmd.op = "Jump" -> 3
      [] cmd.op = "Call" -> 3
      [] cmd.op = "Raw" -> cmd.a
      [] OTHER -> 0

\* C5: a line whose nibbles end exactly at nibble 256 of a ROM page is
\* compiled without error, and once the page holds 256 nibbles the next
\* line that emits a nibble, whatever its kind (PASS, VALUE, ADD, SUB, NOT, a
\* label fixup), makes compile_assembly return RomPageFull for that page.
C5_NextEmissionRomPageFull ==
    [][(gen'.src # gen.src /\ Running(asm) /\ asm.section = "Prog"
            /\ asm.page_ident.kind = "Rom" /\ NibblesOf(Last(gen'.src)) > 0)
         => /\ PtrOr256(asm) + NibblesOf(Last(gen'.src)) = PAGE_SIZE =>
                   Running(asm') /\ ~IsSome(asm'.ptr)
            /\ ~IsSome(asm.ptr) =>
                   /\ asm'.result = "Err"
                   /\ asm'.error.kind = "RomPageFull"
                   /\ asm'.error.page = asm.page_ident.n]_vars

RamCursor(a) == IF IsSome(a.ram_nibble_ptr) THEN Unwrap(a.ram_nibble_ptr) ELSE RAM_SIZE_NIBBLES

\* the words the data line emits
WordsOf(cmd) ==
    CASE cmd.op = "Alloc" -> cmd.a
      [] cmd.op \in {"Value", "AddressValue"} -> 1
      [] OTHER -> 0

\* C6: in a data section a VALUE, ALLOC or ADDRESS whose last nibble is the
\* last nibble of the RAM plane is compiled without error and leaves the
\* plane full; on a full plane every VALUE, ADDRESS, ALLOC of at least one
\* word and every .LABEL fails with RamFull.
C6_LastWordFitsThenRamFull ==
    [][(gen'.src # gen.src /\ Running(asm) /\ asm.section = "Data"
            /\ Last(gen'.src).op \in {"Value", "Alloc", "AddressValue", "Label"})
         => LET c == Last(gen'.src)
                need == 4 * WordsOf(c)
                free == RAM_SIZE_NIBBLES - RamCursor(asm)
            IN  /\ (need > 0 /\ need = free) =>
                       Running(asm') /\ ~IsSome(asm'.ram_nibble_ptr)
                /\ (free = 0 /\ (need > 0 \/ c.op = "Label")) =>
                       asm'.result = "Err" /\ asm'.error.kind = "RamFull"]_vars

\* a VALUE has written the last word of the plane and the VALUE after it has
\* failed with RamFull
C6_ValueAfterLastWord ==
    /\ asm.result = "Err"
    /\ asm.error.kind = "RamFull"
    /\ Len(gen.src) >= 2
    /\ Last(gen.src).op = "Value"
    /\ gen.src[Len(gen.src) - 1].op = "Value"
    /\ Len(asm.memory.ram) = RAM_SIZE_NIBBLES
    /\ asm.memory.ram[RAM_SIZE_NIBBLES] = Some(1)


(***************************************************************************)
(* Properties of Spec and SpecRomFull: .USEFLAGS, panics                    *)
(***************************************************************************)
\* C11: a .USEFLAGS line reached while flags_as_set has no candidate source
\* makes the assembly fail with BadUseflags carrying the line of the
\* .USEFLAGS.
C11_EmptyUseflagsRejected ==
    [][(gen'.src # gen.src /\ Running(asm) /\ asm.section = "Prog"
            /\ Last(gen'.src).op = "UseFlags" /\ asm.flags_as_set.sources = <<>>)
         => /\ asm'.result = "Err"
            /\ asm'.error.kind = "BadUseflags"
            /\ asm'.error.useflags_line = asm.line_num]_vars

\* a .USEFLAGS without a candidate source has been compiled and recorded
C11_EmptyUseflagsRecorded ==
    /\ Running(asm)
    /\ \E l \in DOMAIN asm.useflag_lines : asm.useflag_lines[l] = <<>>

\* C12: compile_assembly ends with a success value or with one error value,
\* never in a panic (a failed unwrap or assertion), and an error comes
\* without a ProgramMemory.
C12_ResultOrError ==
    /\ asm.result \in {"Running", "Ok", "Err"}
    /\ asm.result = "Err" => asm.error.kind # "" /\ asm.program_memory = ProgramMemory_zeros
    /\ asm.result \in {"Running", "Ok"} => asm.error = NoError

\* the assembler has panicked on a line of a full ROM page
C12_PanicOnFullPage ==
    /\ asm.result = "Panic"
    /\ Last(gen.src).op \in {"Add", "Alm1", "Alm2"}


(***************************************************************************)
(* Properties of SpecPages: the cells of the memory                         *)
(***************************************************************************)
\* the cell behind a MemNibblePtr has been written
Written(m, c) ==
    IF c.kind = "Rom" THEN Has(m.rom_pages, <<c.page, c.addr>>)
    ELSE IsSome(RamCell(m.ram, c.addr))

\* the cells reserved for the fixups, one set per fixup, in the order of the
\* three tables
FixupSlots(a) ==
    [i \in 1..Len(a.labelled_page_location_targets) |->
        {PageLocation_nibble_ptr(a.labelled_page_location_targets[i].page,
                                 a.labelled_page_location_targets[i].ptr + k) : k \in 0..1}]
    \o [i \in 1..Len(a.ram_page_targets) |->
        {PageLocation_nibble_ptr(a.ram_page_targets[i].page,
                                 a.ram_page_targets[i].ptr + k) : k \in 0..3}]
    \o [i \in 1..Len(a.labelled_ram_address_targets) |->
        {[a.labelled_ram_address_targets[i].ptr EXCEPT !.addr = @ + k] : k \in 0..3}]

InPlane(c) ==
    IF c.kind = "Rom" THEN c.page \in 0..(ROM_PAGES - 1) /\ c.addr \in 0..(PAGE_SIZE - 1)
    ELSE c.addr \in 0..(RAM_SIZE_NIBBLES - 1)

\* C13: no cell is written twice during assembly and finalize (set_nibble
\* never finds a cell already written); while lines are compiled the slots
\* reserved for fixups stay unwritten; the slots are pairwise disjoint and
\* lie in their plane; the RAM code pages are pairwise disjoint, the lines of
\* a ROM page follow each other without overlap, and every ROM offset
\* written is in 0..255.
C13_NoCellWrittenTwice ==
    /\ ~(asm.result = "Panic" /\ asm.error.kind = "set_nibble")
    /\ \A k \in DOMAIN asm.memory.rom_pages :
           k[1] \in 0..(ROM_PAGES - 1) /\ k[2] \in 0..(PAGE_SIZE - 1)
    /\ Len(asm.memory.ram) <= RAM_SIZE_NIBBLES
    /\ Running(asm) =>
           LET slots == FixupSlots(asm)
           IN  /\ \A i \in 1..Len(slots) : \A c \in slots[i] :
                       InPlane(c) /\ ~Written(asm.memory, c)
               /\ \A i, j \in 1..Len(slots) : i < j => slots[i] \cap slots[j] = {}
    /\ \A i, j \in 1..Len(asm.ram_pages) :
           i < j => 4 * asm.ram_pages[i].start + asm.ram_pages[i].length
                        <= 4 * asm.ram_pages[j].start
    /\ \A n \in 0..(ROM_PAGES - 1) : \A i \in 1..Len(asm.rom_lines[n]) :
           /\ asm.rom_lines[n][i].page_start <= asm.rom_lines[n][i].page_end
           /\ asm.rom_lines[n][i].page_end <= PAGE_SIZE
           /\ i > 1 => asm.rom_lines[n][i - 1].page_end <= asm.rom_lines[n][i].page_start

\* a program is assembled in which nibbles were emitted into a ROM page after
\* a fixup slot of that page was reserved, and the slot holds its fixup
C13_EmissionAfterSlot ==
    /\ asm.result = "Ok"
    /\ \E i \in 1..Len(asm.labelled_page_location_targets) :
           LET t == asm.labelled_page_location_targets[i]
           IN  /\ t.page.kind = "Rom"
               /\ Written(asm.memory, MemRom(t.page.n, t.ptr))
               /\ Written(asm.memory, MemRom(t.page.n, t.ptr + 1))
               /\ Written(asm.memory, MemRom(t.page.n, t.ptr + 2))


(***************************************************************************)
(* SpecLayout: layout_pages runs over a source text of any lines, then      *)
(* compile_assembly over the page buckets it returned.                      *)
(***************************************************************************)
\* the arm of the match on a command or meta line of a program page
compile_command(s, cmd) ==
    CASE cmd.op = "Pass" -> cmd_Pass(s)
      [] cmd.op = "Raw" -> cmd_Raw(s, [i \in 1..cmd.a |-> 0])
      [] cmd.op = "RawNibbles" -> cmd_Raw(s, cmd.nibbles)
      [] cmd.op = "RawLabel" -> cmd_RawLabel(s, cmd.l)
      [] cmd.op = "Value" -> cmd_Value(s, Some(cmd.a))
      [] cmd.op = "AddressValue" -> cmd_AddressValue(s, cmd.l)
      [] cmd.op = "Jump" -> cmd_Jump(s, cmd.l)
      [] cmd.op = "Branch" -> cmd_Branch(s, cmd.a, cmd.l)
      [] cmd.op = "Pop" -> cmd_Pop(s, cmd.a)
      [] cmd.op = "Call" -> cmd_Call(s, cmd.l)
      [] cmd.op = "Return" -> cmd_Return(s)
      [] cmd.op = "Add" -> cmd_Add(s, cmd.a)
      [] cmd.op = "Alloc" -> cmd_Alloc_in_prog(s)
      [] cmd.op = "Label" -> meta_Label(s, cmd.l)
      [] cmd.op = "UseFlags" -> meta_UseFlags(s)
      [] cmd.op = "Push" -> cmd_Push(s, cmd.a)
      [] cmd.op = "Rotate" -> cmd_Rotate(s, cmd.a, cmd.b)
      [] cmd.op = "Alm1" -> cmd_Alm1(s, cmd.a)
      [] cmd.op = "Alm2" -> cmd_Alm2(s, cmd.a, cmd.b)
      [] cmd.op = "Input" -> cmd_Input(s)
      [] cmd.op = "Output" -> cmd_Output(s, cmd.octs)
      [] OTHER -> s

\* the arm of the match on a command or meta line of a data section
compile_data(s, cmd) ==
    CASE cmd.op = "Value" -> data_Value(s, Some(cmd.a))
      [] cmd.op = "AddressValue" -> data_AddressValue(s, cmd.l)
      [] cmd.op = "Alloc" -> data_Alloc(s, Some(cmd.a))
      [] cmd.op = "Label" -> data_Label(s, cmd.l)
      [] OTHER -> data_Other(s)

\* the lines the source text is written with
LayoutSections == {Cmd("RomPage", 0, 0, ""), Cmd("RamPage", 0, 0, ""), Cmd("Data", 0, 0, "")}
LayoutLabels == {Cmd("Label", 0, 0, "f")}
LayoutOthers ==
    {Cmd("Pass", 0, 0, ""), Cmd("Value", 1, 0, ""), Cmd("Alloc", 1, 0, ""),
     Cmd("UseFlags", 0, 0, ""), Cmd("Raw", PAGE_SIZE, 0, ""),
     Cmd("Jump", 0, 0, "f"), Cmd("Branch", 2, 0, "f"), Cmd("Call", 0, 0, "f"),
     Cmd("RawLabel", 0, 0, "f"), Cmd("AddressValue", 0, 0, "f")}

\* layout_pages takes the next line of the text
LayoutLine(cmd) ==
    /\ gen.stage \in {"start", "layout"}
    /\ Running(lay)
    /\ Len(gen.src) < MaxLayoutLines
    /\ lay' = layout_line(lay, cmd)
    /\ gen' = [gen EXCEPT !.stage = "layout", !.src = Append(@, cmd)]
    /\ UNCHANGED <<asm, sim, alu, drv>>

LayoutSection == \E cmd \in LayoutSections : LayoutLine(cmd)
LayoutLabel == \E cmd \in LayoutLabels : LayoutLine(cmd)
LayoutOther == \E cmd \in LayoutOthers : LayoutLine(cmd)

\* the text ends: layout_pages returns Ok and compile_assembly is entered
LayoutEnd ==
    /\ gen.stage \in {"start", "layout"}
    /\ Running(lay)
    /\ lay' = layout_success(lay)
    /\ asm' = compile_blank(lay.label_to_page)
    /\ gen' = [gen EXCEPT !.stage = "compile"]
    /\ UNCHANGED <<sim, alu, drv>>

\* the loop over the lines of the bucket lay.page_i is at its end
BucketDone ==
    IF lay.page_i = 0 THEN TRUE ELSE lay.line_j = Len(lay.pages[lay.page_i].lines)

\* for (page, lines) in pages: the next bucket is entered
CompilePage ==
    /\ gen.stage = "compile"
    /\ Running(asm)
    /\ BucketDone
    /\ lay.page_i < Len(lay.pages)
    /\ LET ident == lay.pages[lay.page_i + 1].ident
       IN  asm' = IF ident.kind = "Rom" THEN section_Rom(asm, ident.n)
                  ELSE IF ident.kind = "Ram" THEN section_Ram(asm)
                  ELSE section_Data(asm)
    /\ lay' = [lay EXCEPT !.page_i = @ + 1, !.line_j = 0]
    /\ UNCHANGED <<gen, sim, alu, drv>>

\* the line compile_assembly is about to take
NextLine == lay.pages[lay.page_i].lines[lay.line_j + 1]

CompileProgLine ==
    /\ gen.stage = "compile"
    /\ Running(asm)
    /\ ~BucketDone
    /\ lay.pages[lay.page_i].ident.kind \in {"Rom", "Ram"}
    /\ LET s == [asm EXCEPT !.line_num = NextLine.assembly_line_num]
       IN  asm' = line_done(s, compile_command(s, NextLine.line), NextLine.line)
    /\ lay' = [lay EXCEPT !.line_j = @ + 1]
    /\ UNCHANGED <<gen, sim, alu, drv>>

CompileDataLine ==
    /\ gen.stage = "compile"
    /\ Running(asm)
    /\ ~BucketDone
    /\ lay.pages[lay.page_i].ident.kind = "Data"
    /\ LET s == [asm EXCEPT !.line_num = NextLine.assembly_line_num]
       IN  asm' = data_line_done(compile_data(s, NextLine.line))
    /\ lay' = [lay EXCEPT !.line_j = @ + 1]
    /\ UNCHANGED <<gen, sim, alu, drv>>

\* the last bucket is done: code.finish()?, memory.finish()
CompileEnd ==
    /\ gen.stage = "compile"
    /\ Running(asm)
    /\ BucketDone
    /\ lay.page_i = Len(lay.pages)
    /\ asm' = compile_finish(asm)
    /\ gen' = [gen EXCEPT !.stage = "assembled"]
    /\ UNCHANGED <<lay, sim, alu, drv>>

InitLayout ==
    /\ gen = Reader("layout", {"f"})
    /\ asm = compile_blank(EmptyFn)
    /\ sim = NoSimulator
    /\ alu = NoAlu
    /\ lay = layout_blank
    /\ drv = NoDriver

NextLayout ==
    \/ LayoutSection
    \/ LayoutLabel
    \/ LayoutOther
    \/ LayoutEnd
    \/ CompilePage
    \/ CompileProgLine
    \/ CompileDataLine
    \/ CompileEnd

SpecLayout == InitLayout /\ [][NextLayout]_vars


(***************************************************************************)
(* Properties of SpecLayout                                                 *)
(***************************************************************************)
SectionOps == {"RomPage", "RamPage", "Data"}

\* layout_pages takes the line Last(gen'.src) in this step
LayoutStep == gen'.src # gen.src /\ Running(lay)

\* compile_assembly takes the line NextLine in this step
CompileLineStep ==
    /\ gen.stage = "compile"
    /\ Running(asm)
    /\ lay'.page_i = lay.page_i
    /\ lay'.line_j = lay.line_j + 1

\* C15: the first line that is not a section directive and comes before any
\* section directive makes layout_pages return MissingPageStart with the
\* index of that line, and no bucket ever holds a line that has no section
\* directive before it.
C15_MissingPageStart ==
    [][LayoutStep =>
          LET cmd == Last(gen'.src)
              before == ~\E k \in 1..Len(gen.src) : gen.src[k].op \in SectionOps
          IN  /\ (before /\ cmd.op \notin SectionOps) =>
                     /\ lay'.result = "Err"
                     /\ lay'.error = LayoutPagesError("MissingPageStart", Len(gen.src), "")
                     /\ lay'.pages = <<>>
              /\ lay'.error.kind = "MissingPageStart" => before /\ cmd.op \notin SectionOps
              /\ \A i \in 1..Len(lay'.pages) : \A j \in 1..Len(lay'.pages[i].lines) :
                     LET ln == lay'.pages[i].lines[j]
                     IN  /\ gen'.src[ln.assembly_line_num + 1] = ln.line
                         /\ \E k \in 1..ln.assembly_line_num : gen'.src[k].op \in SectionOps]_vars

\* layout_pages has returned MissingPageStart for a label that is the first
\* line of the text
C15_LabelBeforeSection ==
    /\ lay.result = "Err"
    /\ lay.error.kind = "MissingPageStart"
    /\ Len(gen.src) = 1
    /\ gen.src[1].op = "Label"

\* the bucket layout_pages is filling
CurrentIdent(l) == l.pages[Unwrap(l.current_section)].ident

DataOps == {"Value", "AddressValue", "Alloc", "Label"}

\* C17: in a data section VALUE, ADDRESS, ALLOC and .LABEL never raise
\* InvalidCommandLocation, and every other line, .USEFLAGS included, makes
\* compile_assembly return InvalidCommandLocation with the index of that line;
\* so does ALLOC in a program page.
C17_InvalidCommandLocation ==
    [][CompileLineStep =>
          LET cmd == NextLine.line
              bad == /\ asm'.result = "Err"
                     /\ asm'.error.kind = "InvalidCommandLocation"
                     /\ asm'.error.line = NextLine.assembly_line_num
          IN  IF lay.pages[lay.page_i].ident.kind = "Data"
              THEN IF cmd.op \in DataOps
                   THEN Running(asm') \/ asm'.error.kind \in {"DuplicateRamLabel", "RamFull"}
                   ELSE bad
              ELSE IF cmd.op = "Alloc" THEN bad
              ELSE asm'.error.kind # "InvalidCommandLocation"]_vars

\* .USEFLAGS in a data section has been rejected
C17_UseFlagsInData ==
    /\ gen.stage = "compile"
    /\ asm.result = "Err"
    /\ asm.error.kind = "InvalidCommandLocation"
    /\ lay.page_i > 0
    /\ lay.pages[lay.page_i].ident.kind = "Data"
    /\ lay.pages[lay.page_i].lines[lay.line_j].line.op = "UseFlags"

\* the label is defined in a program section of the text
DefinedInProgram(l, label) ==
    \E i \in 1..Len(l.pages) :
        /\ l.pages[i].ident.kind \in {"Rom", "Ram"}
        /\ \E j \in 1..Len(l.pages[i].lines) :
               l.pages[i].lines[j].line.op = "Label" /\ l.pages[i].lines[j].line.l = label

\* the label is bound in a data section of the text
BoundInData(l, label) ==
    \E i \in 1..Len(l.pages) :
        /\ l.pages[i].ident.kind = "Data"
        /\ \E j \in 1..Len(l.pages[i].lines) :
               l.pages[i].lines[j].line.op = "Label" /\ l.pages[i].lines[j].line.l = label

OctDigits == {0, 7}

\* the paths of 1..MaxPath octal digits
OctPaths == UNION {[1..n -> OctDigits] : n \in 1..MaxPath}

LineOutput ==
    \E octs \in OctPaths :
        ProgLine("output", [op |-> "Output", a |-> Len(octs), b |-> 0, l |-> "", octs |-> octs],
                 cmd_Output(asm, octs))

InitOutput ==
    /\ gen = Reader("output", {})
    /\ asm = compile_blank(EmptyFn)
    /\ sim = NoSimulator
    /\ alu = NoAlu
    /\ lay = NoLayout
    /\ drv = NoDriver

NextOutput ==
    \/ LineRomPage
    \/ LinePass
    \/ LineOutput
    \/ Finish

SpecOutput == InitOutput /\ [][NextOutput]_vars

\* the compiled lines of the sections that are closed and of the one that is
\* being compiled
LinesSoFar(a) ==
    CompiledLines(a) \cup {[page |-> a.page_ident, line |-> a.page_lines[i]] :
                              i \in 1..Len(a.page_lines)}

\* C19: an OUTPUT with the path d1..dn of octal digits, n >= 1, is opcode 15
\* followed by exactly n nibbles, of which nibble i is di (bit 3 clear) for
\* i < n and dn + 8 (bit 3 set) for i = n.
C19_OutputEncoding ==
    \A c \in LinesSoFar(asm) :
        c.line.cmd.op = "Output" =>
            LET octs == c.line.cmd.octs
                n == Len(octs)
                o == c.line.page_start
                cells == CellsAt(asm, LocationOf(asm, c.page), o, n + 1)
            IN  /\ c.line.page_end - o = n + 1
                /\ cells[1] = 15
                /\ \A i \in 1..n :
                       /\ cells[i + 1] % 8 = octs[i]
                       /\ (cells[i + 1] >= 8) = (i = n)

\* a program with an OUTPUT of three digits, of which the first is 7 and the
\* last is 0, is assembled
C19_ThreeDigitPath ==
    /\ asm.result = "Ok"
    /\ gen.stage = "assembled"
    /\ \E c \in CompiledLines(asm) :
           /\ c.line.cmd.op = "Output"
           /\ c.line.cmd.octs = <<7, 7, 0>>
           /\ c.line.page_start > 0


(***************************************************************************)
(* SpecData: a program that pushes the address of a data label and pops it  *)
(* into a register is assembled and run                                     *)
(***************************************************************************)
PopRegisters == {0, 15}

LinePop ==
    \E r \in PopRegisters : ProgLine("pop", Cmd("Pop", r, 0, ""), cmd_Pop(asm, r))

StepPop == Step(5, st_Pop(sim))

InitData ==
    /\ gen = Reader("data", {})
    /\ asm = compile_blank(EmptyFn)
    /\ sim = NoSimulator
    /\ alu = NoAlu
    /\ lay = NoLayout
    /\ drv = NoDriver

NextData ==
    \/ LineRomPage
    \/ LineAddressValue
    \/ LinePop
    \/ LineReturn
    \/ LineRamPage
    \/ LineRaw
    \/ LineData
    \/ DataValue
    \/ DataAlloc
    \/ DataLabel
    \/ Finish
    \/ Load
    \/ StepValue
    \/ StepPop
    \/ StepReturn

SpecData == InitData /\ [][NextData]_vars

\* the words a data line emits
EmittedWords(cmd) ==
    CASE cmd.op = "Value" -> <<cmd.a>>
      [] cmd.op = "Alloc" -> [i \in 1..cmd.a |-> 0]
      [] OTHER -> <<>>

RECURSIVE WordsFrom(_, _)
\* the words the lines src[i], src[i + 1], ... emit
WordsFrom(src, i) ==
    IF i > Len(src) THEN <<>> ELSE EmittedWords(src[i]) \o WordsFrom(src, i + 1)

\* the line of the text that binds the data label
LabelLine(src, label) ==
    CHOOSE i \in 1..Len(src) : src[i].op = "Label" /\ src[i].l = label

\* C14: when the program is assembled, the words that the data section emits
\* after `.LABEL d` are in RAM at W, W + 1, ... in their order, where W is the
\* word address the assembler bound to d; when the simulator has executed
\* `VALUE d` the top of the data stack is W, and when it has executed `POP %r`
\* after it, registers[r] is W.
C14_DataLabelAddress ==
    (gen.stage \in {"assembled", "running"} /\ asm.result = "Ok") =>
        LET W == asm.labelled_ram_addresses["d"]
            words == WordsFrom(gen.src, LabelLine(gen.src, "d") + 1)
            memory == IF sim.live THEN sim.memory ELSE asm.program_memory
        IN  /\ \A k \in 1..Len(words) : RamMem_read(memory, W + k - 1) = words[k]
            /\ (sim.live /\ sim.last_op = 1) => sim.data_stack = <<W>>
            /\ (sim.live /\ sim.last_op \in {5, 7}) =>
                   /\ sim.registers[gen.src[3].a] = W
                   /\ sim.data_stack = <<>>

\* `.LABEL d / ALLOC 4` after a RAM page and a word of data, and
\* `VALUE d / POP %0` has run: the label is not at word 0
C14_AllocAfterLabel ==
    /\ sim.live
    /\ sim.last_op = 5
    /\ gen.src[3] = Cmd("Pop", 0, 0, "")
    /\ \E i \in 1..(Len(gen.src) - 1) :
           /\ gen.src[i] = Cmd("Label", 0, 0, "d")
           /\ gen.src[i - 1].op = "Value"
           /\ gen.src[i + 1] = Cmd("Alloc", 4, 0, "")
    /\ \E i \in 1..Len(gen.src) : gen.src[i].op = "RamPage"
    /\ sim.registers[0] = asm.labelled_ram_addresses["d"]
    /\ sim.registers[0] > 0
    /\ \A k \in 0..3 : RamMem_read(sim.memory, sim.registers[0] + k) = 0


(***************************************************************************)
(* The drivers of the GUI (gui/src/app/simulator): SimulatorState holds the *)
(* Simulator and steps it, in the caller's thread (singlethreaded.rs) or in *)
(* a run thread of its own (multithreaded.rs).  drv.run_thread is "running" *)
(* while the closure of the thread runs, "returned" when the closure has    *)
(* returned its SimulatorEndState, "finished" when JoinHandle::is_finished  *)
(* is true, and "none" when the handle has been taken and joined.           *)
(* drv.queried is <<r>> when the last call of end_state returned r.         *)
(* drv.stop is the stop flag of the run thread, drv.batch the number of     *)
(* iterations left of its `for i in 0..n`, and drv.seen what the getters    *)
(* last returned to another thread.  drv.instructions_to_do is the shared   *)
(* count of that name (whole numbers: at rate 0 nothing else is added to    *)
(* it) and drv.asked a history: the calls of the multithreaded one_step.    *)
(***************************************************************************)
\* SimulatorState::new
SimulatorState_new(kind) ==
    [kind |-> kind, end_state |-> None,
     run_thread |-> IF kind = "multi" THEN "running" ELSE "none",
     thread_result |-> None, run_result |-> None, queried |-> <<>>,
     stop |-> FALSE, batch |-> 0, seen |-> <<>>,
     instructions_to_do |-> 0, asked |-> 0]

\* Simulator::step: the match on the opcode.  An INPUT that finds the queue
\* empty leaves the call inside its loop (loc = "input_loop")
step(s) ==
    LET opcode == read_pcache(s)
        after == CASE opcode = 0 -> st_Pass(s)
                   [] opcode = 1 -> st_Value(s)
                   [] opcode = 2 -> st_Jump(s)
                   [] opcode = 3 -> st_Branch(s)
                   [] opcode = 4 -> st_Push(s)
                   [] opcode = 5 -> st_Pop(s)
                   [] opcode = 6 -> st_Call(s)
                   [] opcode = 7 -> st_Return(s)
                   [] opcode = 8 -> st_Add(s)
                   [] opcode = 9 -> st_Rotate(s)
                   [] opcode = 10 -> st_Alm1(s)
                   [] opcode = 11 -> st_Alm2(s)
                   [] opcode = 12 -> st_RomCall(s)
                   [] opcode = 13 -> st_RamCall(s)
                   [] opcode = 14 -> st_Input(s)
                   [] OTHER -> st_Output(s)
    IN  [after EXCEPT !.last_op = opcode]

\* singlethreaded SimulatorState::one_step: the simulator and the driver it
\* leaves
single_one_step(s, d) ==
    IF ~IsSome(d.end_state)
    THEN LET t == step(s)
         IN  [sim |-> t,
              drv |-> IF t.ret = "Finish" THEN [d EXCEPT !.end_state = Some("Halt")] ELSE d]
    ELSE [sim |-> s, drv |-> d]

\* one pass of the `for i in 0..n` loop in the closure of the run thread
thread_step(s, d) ==
    LET t == step(s)
    IN  [sim |-> t,
         drv |-> IF t.ret = "Finish"
                 THEN [d EXCEPT !.run_thread = "returned", !.thread_result = Some("Halt")]
                 ELSE d]

\* SimulatorState::end_state of both drivers
end_state(d) ==
    IF d.kind = "single" THEN [d EXCEPT !.queried = <<d.end_state>>]
    ELSE LET e == IF d.run_thread = "finished"
                  THEN [d EXCEPT !.run_result = d.thread_result, !.run_thread = "none"]
                  ELSE d
         IN  [e EXCEPT !.queried = <<e.run_result>>]

(***************************************************************************)
(* SpecDriver: a driver program is assembled and a driver of the GUI runs   *)
(* it                                                                       *)
(***************************************************************************)
\* State::reload_simulator: the simulator of the program is handed to a driver
NewDriver ==
    \E kind \in {"single", "multi"} :
        /\ gen.stage = "assembled"
        /\ asm.result = "Ok"
        /\ ~sim.live
        /\ sim' = Simulator_new(asm.program_memory)
        /\ drv' = SimulatorState_new(kind)
        /\ gen' = [gen EXCEPT !.stage = "running"]
        /\ UNCHANGED <<asm, alu, lay>>

\* process or the Step button calls one_step
OneStep ==
    /\ sim.live
    /\ sim.loc = "idle"
    /\ drv.kind = "single"
    /\ sim' = single_one_step(sim, drv).sim
    /\ drv' = single_one_step(sim, drv).drv
    /\ UNCHANGED <<gen, asm, alu, lay>>

\* the run thread has an instruction to do
ThreadStep ==
    /\ sim.live
    /\ drv.kind = "multi"
    /\ drv.run_thread = "running"
    /\ sim' = thread_step(sim, drv).sim
    /\ drv' = thread_step(sim, drv).drv
    /\ UNCHANGED <<gen, asm, alu, lay>>

\* the run thread ends after its closure has returned
ThreadExit ==
    /\ drv.run_thread = "returned"
    /\ drv' = [drv EXCEPT !.run_thread = "finished"]
    /\ UNCHANGED <<gen, asm, sim, alu, lay>>

\* update asks the driver for the end state
EndState ==
    /\ sim.live
    /\ drv.kind # "none"
    /\ drv' = end_state(drv)
    /\ UNCHANGED <<gen, asm, sim, alu, lay>>

InitDriver ==
    /\ gen = Reader("driver", {"f"})
    /\ asm = compile_blank([l \in {"f"} |-> Rom(0)])
    /\ sim = NoSimulator
    /\ alu = NoAlu
    /\ lay = NoLayout
    /\ drv = NoDriver

NextDriver ==
    \/ LineRomPage
    \/ LineValue
    \/ LinePass
    \/ LineCall
    \/ LineReturn
    \/ LineLabel
    \/ Finish
    \/ NewDriver
    \/ OneStep
    \/ ThreadStep
    \/ ThreadExit
    \/ EndState

\* a thread whose closure has returned ends
SpecDriver == InitDriver /\ [][NextDriver]_vars /\ WF_vars(ThreadExit)

\* what end_state would return if it were called now
Reports(d) == end_state(d).queried[1]

\* C20: a step that fetches RETURN with an empty call stack returns Finish
\* and leaves the program counter, both stacks, the registers and the memory
\* as they were; after it the simulator is not stepped again; the driver
\* comes to report Halt (the single-threaded one at once, the multi-threaded
\* one when its run thread has ended); and once end_state reports Halt it
\* reports Halt at every later call.
C20_ReturnHalts ==
    /\ [][/\ (sim.live /\ sim' # sim /\ read_pcache(sim) = 7 /\ sim.call_stack = <<>>) =>
                 /\ sim'.ret = "Finish"
                 /\ sim' = [sim EXCEPT !.ret = "Finish", !.last_op = 7]
                 /\ sim'.program_counter = sim.program_counter
                 /\ sim'.call_stack = sim.call_stack
                 /\ sim'.data_stack = sim.data_stack
                 /\ sim'.registers = sim.registers
                 /\ sim'.memory = sim.memory
                 /\ drv.kind = "single" => Reports(drv') = Some("Halt")
                 /\ drv.kind = "multi" => drv'.thread_result = Some("Halt")
          /\ (sim.live /\ sim.ret = "Finish") => sim' = sim
          /\ (sim.live /\ sim'.ret = "Finish") =>
                 (read_pcache(sim) = 7 /\ sim.call_stack = <<>>)
          /\ Reports(drv) = Some("Halt") =>
                 /\ Reports(drv') = Some("Halt")
                 /\ drv'.queried \in {drv.queried, <<Some("Halt")>>}
          /\ drv.queried = <<Some("Halt")>> => drv'.queried = <<Some("Halt")>>
          /\ Reports(drv') = Some("Halt") => sim'.ret = "Finish"]_vars
    /\ (sim.live /\ sim.ret = "Finish") ~> (Reports(drv) = Some("Halt"))

\* the run thread has returned from a subroutine, then executed the RETURN
\* of the main program with a value on the data stack, and end_state has
\* returned Halt
C20_HaltReported ==
    /\ drv.kind = "multi"
    /\ drv.queried = <<Some("Halt")>>
    /\ drv.run_thread = "none"
    /\ sim.ret = "Finish"
    /\ sim.data_stack # <<>>
    /\ sim.program_counter.counter > 0
    /\ \E i \in 1..Len(gen.src) : gen.src[i].op = "Call"


(***************************************************************************)
(* Properties of Spec: the padding of a BRANCH                              *)
(***************************************************************************)
RECURSIVE Ticks(_, _)
\* the MemoryPageManager after d nibbles that leave flags_as_set alone
Ticks(s, d) == IF d = 0 THEN s ELSE Ticks(tick_flags_delay(s), d - 1)

\* the numbers of PASS nibbles after which the branch would see `flags`
Delays(s, flags) == {d \in 0..FLAG_DELAY : current_flags_branch_pov(Ticks(s, d)) = flags}

\* C28: a BRANCH with a pending .USEFLAGS snapshot F is compiled as d PASS
\* nibbles and then the four nibbles of the branch, where d is the smallest
\* number in 0..6 such that after d emission ticks the back of the flag delay
\* queue is F, so that current_flags_branch_pov() is F where the opcode is
\* emitted; when there is no such d the BRANCH is rejected.
C28_BranchPadding ==
    [][(gen'.src # gen.src /\ Last(gen'.src).op = "Branch" /\ Running(asm)
            /\ IsSome(asm.useflag_saved_flag_state)) =>
          LET F == Unwrap(asm.useflag_saved_flag_state).flags
              D == Delays(asm, F)
          IN  IF D = {}
              THEN asm'.result = "Err" /\ asm'.error.kind = "BadUseflagsWithBranch"
              ELSE LET d == CHOOSE x \in D : \A y \in D : x <= y
                       b == Last(asm'.page_lines)
                   IN  /\ Running(asm')
                       /\ b.cmd.op = "Branch"
                       /\ b.page_start = Unwrap(asm.ptr)
                       /\ b.page_end - b.page_start = d + 4
                       /\ \A i \in 0..(d - 1) : CellAt(asm', asm'.page, b.page_start + i) = 0
                       /\ CellAt(asm', asm'.page, b.page_start + d) = 3
                       /\ current_flags_branch_pov(Ticks(asm, d)) = F]_vars

\* a BRANCH has been compiled with three PASS nibbles of padding
C28_ThreePassPadding ==
    /\ Running(asm)
    /\ asm.page_lines # <<>>
    /\ Last(asm.page_lines).cmd.op = "Branch"
    /\ Has(asm.branch_lines, Last(asm.page_lines).assembly_line_num)
    /\ Last(asm.page_lines).page_end - Last(asm.page_lines).page_start = 7
    /\ CellsAt(asm, asm.page, Last(asm.page_lines).page_start, 4) = <<0, 0, 0, 3>>


(***************************************************************************)
(* Properties of SpecPages: the RAM pages                                   *)
(***************************************************************************)
\* C30: the k-th ..RAM section of the text (k = 0, 1, ...) gets the page
\* identity k and the base word address that is the RAM nibble cursor
\* rounded up to a multiple of 4, divided by 4; and in the assembled program
\* the nibble at offset o of a RAM page, for every o below the length of the
\* page, is the nibble that read_page gives at counter o for the page pointer
\* Ram{addr = base}.
C30_RamPagePlacement ==
    /\ [][(gen'.src # gen.src /\ Last(gen'.src).op = "RamPage" /\ Running(asm)) =>
             LET k == CountOf(gen, {"RamPage"})
                 base == (RamCursor(asm) + 3) \div 4
             IN  /\ Running(asm')
                 /\ asm'.page_ident = Ram(k)
                 /\ asm'.page = Ram(base)
                 /\ asm'.ram_ident_to_addr[k] = base
                 /\ asm'.ptr = Some(0)
                 /\ RamCursor(asm') = 4 * base]_vars
    /\ [](asm.result = "Ok" =>
             \A k \in 1..Len(asm.ram_pages) :
                 LET base == asm.ram_pages[k].start
                     fetched == read_page(asm.program_memory, Ram(base))
                 IN  /\ asm.ram_ident_to_addr[k - 1] = base
                     /\ \A o \in 0..(asm.ram_pages[k].length - 1) :
                            /\ CellAt(asm, Ram(base), o) \in 0..15
                            /\ fetched[o] = CellAt(asm, Ram(base), o))

\* a program with two RAM pages is assembled; the second page starts after
\* the first at a word the cursor was rounded up to, and holds an opcode in
\* the middle of a word
C30_SecondRamPage ==
    /\ asm.result = "Ok"
    /\ Len(asm.ram_pages) = 2
    /\ asm.ram_pages[1].length % 4 # 0
    /\ asm.ram_pages[2].start = (asm.ram_pages[1].length + 3) \div 4
    /\ \E o \in 0..(asm.ram_pages[2].length - 1) :
           /\ o % 4 # 0
           /\ CellAt(asm, Ram(asm.ram_pages[2].start), o) > 0

(***************************************************************************)
(* full_compile (lib.rs) as one function of the text: layout_pages over     *)
(* every line, then compile_assembly over every bucket                      *)
(***************************************************************************)
\* layout_pages: the loop over assembly.lines_with_pos()
RECURSIVE layout_lines(_, _, _)
layout_lines(s, text, i) ==
    IF i > Len(text) \/ ~Running(s) THEN s
    ELSE TheOne({layout_lines(t, text, i + 1) : t \in {layout_line(s, text[i])}})

\* layout_pages
layout_pages(text) ==
    TheOne({IF Running(s) THEN layout_success(s) ELSE s : s \in {layout_lines(layout_blank, text, 1)}})

\* compile_assembly: the body of the loop over the lines of one bucket
compile_line(s, kind, l) ==
    TheOne({IF kind = "Data" THEN data_line_done(compile_data(s0, l.line))
            ELSE line_done(s0, compile_command(s0, l.line), l.line) :
                s0 \in {[s EXCEPT !.line_num = l.assembly_line_num]}})

\* compile_assembly: the loop over the lines of one bucket
RECURSIVE compile_lines(_, _, _, _)
compile_lines(s, kind, lines, j) ==
    IF j > Len(lines) \/ ~Running(s) THEN s
    ELSE TheOne({compile_lines(t, kind, lines, j + 1) : t \in {compile_line(s, kind, lines[j])}})

\* compile_assembly: the start of a bucket
compile_section(s, ident) ==
    IF ident.kind = "Rom" THEN section_Rom(s, ident.n)
    ELSE IF ident.kind = "Ram" THEN section_Ram(s)
    ELSE section_Data(s)

\* compile_assembly: the loop over the buckets
RECURSIVE compile_pages(_, _, _)
compile_pages(s, pages, i) ==
    IF i > Len(pages) \/ ~Running(s) THEN s
    ELSE TheOne({compile_pages(t, pages, i + 1) :
                     t \in {compile_lines(compile_section(s, pages[i].ident),
                                          pages[i].ident.kind, pages[i].lines, 1)}})

\* compile_assembly
compile_assembly(page_layout) ==
    TheOne({IF Running(s) THEN compile_finish(s) ELSE s :
                s \in {compile_pages(compile_blank(page_layout.label_to_page),
                                     page_layout.pages, 1)}})

\* full_compile: the layout and, when there is one, the result of
\* compile_assembly
full_compile(text) ==
    TheOne({[lay |-> l,
             asm |-> IF l.result = "Ok" THEN compile_assembly(l) ELSE compile_blank(EmptyFn)] :
                l \in {layout_pages(text)}})

(***************************************************************************)
(* SpecMachine: a whole program is assembled and the simulator runs it      *)
(* while another thread pushes values on the input queue                    *)
(***************************************************************************)
Rd == Cmd("Alm1", 2, 0, "")
RdPop == Cmd("Alm1", 3, 0, "")
Wr(r) == Cmd("Alm2", 2, r, "")
WrPop(r) == Cmd("Alm2", 3, r, "")
Val(v) == Cmd("Value", v, 0, "")
Addr(l) == Cmd("AddressValue", 0, 0, l)
Lbl(l) == Cmd("Label", 0, 0, l)
Out(octs) == [op |-> "Output", a |-> Len(octs), b |-> 0, l |-> "", octs |-> octs]
In == Cmd("Input", 0, 0, "")
Ret == Cmd("Return", 0, 0, "")
Nop == Cmd("Pass", 0, 0, "")
RomPg(n) == Cmd("RomPage", n, 0, "")
RamPg == Cmd("RamPage", 0, 0, "")
DataPg == Cmd("Data", 0, 0, "")

\* the value v is written to the word at address v and to a data word, read
\* back through the input queue and taken by INPUT
MemText(v, w, write_first) ==
    <<RomPg(0), Val(v), Cmd("Pop", 1, 0, ""), Val(v), WrPop(1), Addr("d")>>
    \o (IF write_first THEN <<Wr(1), Rd>> ELSE <<Rd, Wr(1)>>)
    \o <<RdPop, In, In, Addr("e"), WrPop(1), Addr("e"), RdPop, In, Cmd("Pop", 2, 0, ""), Ret,
         DataPg, Lbl("d"), Val(w), Lbl("e"), Cmd("Alloc", 1, 0, "")>>

\* pops from the empty stack, then `depth` pushes
RECURSIVE Pushes(_)
Pushes(depth) == IF depth = 0 THEN <<>> ELSE <<Val(depth), Cmd("Push", 3, 0, "")>> \o Pushes(depth - 1)

StackText(depth) ==
    <<RomPg(0), Cmd("Pop", 3, 0, ""), Out(<<0>>), RdPop, WrPop(3), Cmd("Alm1", 0, 0, ""),
      Cmd("Pop", 3, 0, ""), Cmd("Pop", 3, 0, ""), Cmd("Pop", 2, 0, "")>>
    \o Pushes(depth) \o <<Ret>>

\* calls within a page, to another ROM page and to a RAM page, nested
CallText(pad) ==
    <<RomPg(0)>> \o [i \in 1..pad |-> Nop]
    \o <<Cmd("Call", 0, 0, "f"), Cmd("Call", 0, 0, "g"), Cmd("Call", 0, 0, "h"), Ret,
         Lbl("f"), Cmd("Call", 0, 0, "g"), Ret,
         Lbl("k"), Nop, Ret,
         RomPg(1), Nop, Lbl("g"), Cmd("Call", 0, 0, "h"), Ret>>
    \o (IF pad > 0 THEN <<DataPg, Val(7)>> ELSE <<>>)
    \o <<RamPg, Lbl("h"), Cmd("Call", 0, 0, "k"), Nop, Ret>>

\* every value taken by INPUT is sent out at once
IoText == <<RomPg(0), In, Out(<<0>>), In, Out(<<7, 1>>), In, Out(<<2>>), Ret>>

\* the other opcodes
MiscText(v, cond) ==
    <<RomPg(0), Val(v), Cmd("Pop", 1, 0, ""), Cmd("Rotate", 1, 1, ""), Cmd("Push", 1, 0, ""),
      Cmd("Add", 1, 0, ""), Cmd("UseFlags", 0, 0, ""), Cmd("Branch", cond, 0, "t"),
      Cmd("Jump", 0, 0, "u"), Lbl("t"), Cmd("Alm2", 6, 1, ""), Lbl("u"), Cmd("Alm1", 1, 0, ""),
      Cmd("Alm2", 0, 1, ""), Ret>>

\* a RAM page at word 0 that writes v to its own word 4, the nibbles 16..19
\* of the page, and then runs into them
SelfModText(v) ==
    <<RomPg(0), Cmd("Call", 0, 0, "h"), Ret,
      RamPg, Lbl("h"), Val(v), Cmd("Pop", 1, 0, ""), Val(4), WrPop(1),
      Nop, Nop, Nop, Nop, Nop, Ret>>

MachineTexts ==
    [mem |-> {MemText(v, w, wf) : v \in {5, WORD - 1}, w \in {0, 9}, wf \in BOOLEAN},
     selfmod |-> {SelfModText(v) : v \in {0, 7 * 4096}},
     stack |-> {StackText(DeepStack)},
     call |-> {CallText(pad) : pad \in {0, 1}},
     io |-> {IoText},
     misc |-> {MiscText(v, cond) : v \in {0, HALF + 1}, cond \in {0, 2, 3}}]

\* State::reload_simulator / main: full_compile of the text
Assemble ==
    /\ gen.stage = "text"
    /\ \E r \in {full_compile(gen.src)} :
           /\ asm' = r.asm
           /\ lay' = r.lay
    /\ gen' = [gen EXCEPT !.stage = "assembled"]
    /\ UNCHANGED <<sim, alu, drv>>

\* Simulator::run: step is called again
RunStep ==
    /\ sim.live
    /\ sim.loc = "idle"
    /\ sim.ret # "Finish"
    /\ sim' = step(sim)
    /\ UNCHANGED <<gen, asm, alu, lay, drv>>

\* InputQueue::push called by the thread that owns the other end of the queue
IoPush ==
    \E v \in InputChoices :
        /\ sim.live
        /\ sim.ret # "Finish"
        /\ gen.inputs < MaxPushes
        /\ sim' = [sim EXCEPT !.input_queue = Append(@, v)]
        /\ gen' = [gen EXCEPT !.inputs = @ + 1, !.pushed = Append(@, v)]
        /\ UNCHANGED <<asm, alu, lay, drv>>

InitMachine ==
    /\ \E mode \in DOMAIN MachineTexts : \E text \in MachineTexts[mode] :
           gen = [mode |-> mode, stage |-> "text", n |-> Len(text), src |-> text,
                  inputs |-> 0, labels |-> {}, pushed |-> <<>>]
    /\ asm = compile_blank(EmptyFn)
    /\ sim = NoSimulator
    /\ alu = NoAlu
    /\ lay = NoLayout
    /\ drv = NoDriver

NextMachine ==
    \/ Assemble
    \/ Load
    \/ RunStep
    \/ StepInputLoop
    \/ IoPush

SpecMachine == InitMachine /\ [][NextMachine]_vars

\* the opcode and the operand nibbles of the instruction step is about to run
Opcode == read_pcache(sim)
Operand(k) == sim.pcache[(sim.program_counter.counter + k) % PAGE_SIZE]

\* this step is a call of Simulator::step that fetches `opcode`
Executes(opcode) ==
    /\ sim.live
    /\ sim.loc = "idle"
    /\ sim.ret # "Finish"
    /\ gen' = gen
    /\ sim' # sim
    /\ Opcode = opcode

\* the data stack without its top
Front(seq) == IF seq = <<>> THEN <<>> ELSE SubSeq(seq, 1, Len(seq) - 1)
\* the top of the data stack, 0 when it is empty
Top(seq) == IF seq = <<>> THEN 0 ELSE seq[Len(seq)]

\* C27: no call of step returns an error (it returns Continue or Finish, or
\* is still inside the INPUT loop); PUSH and VALUE append their value to the
\* data stack whatever its depth; POP r on the empty stack sets register r to
\* 0 and leaves the stack empty, and on any stack it removes exactly the top
C27_NoStepError ==
    /\ [](sim.ret \in {"None", "Continue", "Finish"})
    /\ [][Executes(4) => /\ sim'.ret = "Continue"
                         /\ sim'.data_stack = Append(sim.data_stack, sim.registers[Operand(1)])]_vars
    /\ [][Executes(1) => /\ sim'.ret = "Continue"
                         /\ Len(sim'.data_stack) = Len(sim.data_stack) + 1
                         /\ Front(sim'.data_stack) = sim.data_stack]_vars
    /\ [][Executes(5) => /\ sim'.ret = "Continue"
                         /\ sim'.registers[Operand(1)] = Top(sim.data_stack)
                         /\ sim'.data_stack = Front(sim.data_stack)]_vars
    /\ [][(Executes(15) /\ sim.data_stack = <<>>) =>
              /\ sim'.ret = "Continue"
              /\ sim'.data_stack = <<>>
              /\ sim'.output[Len(sim'.output)].v = 0]_vars

\* the stack is DeepStack * 2 deep in the program that began with a POP from
\* the empty stack
C27_DeepStackAfterEmptyPop ==
    /\ gen.mode = "stack"
    /\ sim.live
    /\ sim.registers[3] = 0
    /\ Len(sim.data_stack) = 2 * DeepStack
    /\ sim.last_op = 4
\* a call of step or a pass through its INPUT loop ends with a value taken
InputTaken ==
    /\ sim.live
    /\ gen' = gen
    /\ sim'.loc = "idle"
    /\ \/ Executes(14)
       \/ sim.loc = "input_loop"

\* C25: READ and READPOP pop an address, read the RAM word at it and append
\* the word to the tail of the input queue, behind every value already
\* queued, and not to the data stack; READ pushes the address back, READPOP
\* does not; registers and memory are left alone.  INPUT takes the head of the
\* queue, so the word is taken only after the values queued before it
C25_ReadQueuesWord ==
    /\ [][(Executes(10) /\ Operand(1) \in {2, 3}) =>
              LET x == Top(sim.data_stack)
              IN  /\ sim'.input_queue = Append(sim.input_queue, RamMem_read(sim.memory, x))
                  /\ sim'.data_stack = IF Operand(1) = 2 THEN Append(Front(sim.data_stack), x)
                                       ELSE Front(sim.data_stack)
                  /\ sim'.registers = sim.registers
                  /\ sim'.memory = sim.memory
                  /\ sim'.program_counter.counter = (sim.program_counter.counter + 2) % PAGE_SIZE]_vars
    /\ [][InputTaken => /\ sim.input_queue # <<>>
                        /\ sim'.data_stack = Append(sim.data_stack, Head(sim.input_queue))
                        /\ sim'.input_queue = Tail(sim.input_queue)]_vars

\* READ has queued the word it read behind a value that was pushed before
C25_WordBehindEarlierValue ==
    /\ gen.mode = "mem"
    /\ sim.last_op = 10
    /\ gen.pushed = <<WORD - 1>>
    /\ sim.input_queue = <<WORD - 1, 5>>
    /\ sim.data_stack # <<>>
\* the RAM word at address a
RamWord(m, a) == CellOr0(m.ram, a)
\* the addresses at which either memory holds a word that was ever set
RamWords(m, n) == DOMAIN m.ram \cup DOMAIN n.ram

\* C26: while the simulator runs, WRITE r and WRITEPOP r set the RAM word at
\* the popped address (taken modulo RAM_SIZE) to registers[r] and change no
\* other RAM word; no other step changes a RAM word; no step changes a ROM
\* nibble; the ProgramMemory of the assembler's result stays as it was
C26_OnlyWriteChangesMemory ==
    [][(sim.live /\ sim'.live) =>
           /\ sim'.memory.rom = sim.memory.rom
           /\ asm' = asm
           /\ IF Executes(11) /\ Operand(1) \in {2, 3}
              THEN LET x == Top(sim.data_stack) % RAM_SIZE
                       r == sim.registers[Operand(2)]
                   IN  \A a \in RamWords(sim.memory, sim'.memory) \cup {x} :
                           RamWord(sim'.memory, a) = IF a = x THEN r ELSE RamWord(sim.memory, a)
              ELSE \A a \in RamWords(sim.memory, sim'.memory) :
                       RamWord(sim'.memory, a) = RamWord(sim.memory, a)]_vars

\* WRITE has replaced the data word of label d, WRITEPOP the word at address
\* 65535 modulo RAM_SIZE, and the assembler's memory still holds the old words
C26_WrittenWordDiffers ==
    /\ gen.mode = "mem"
    /\ sim.last_op = 11
    /\ RamWord(sim.memory, 0) = WORD - 1
    /\ RamWord(asm.program_memory, 0) = 9
    /\ RamWord(sim.memory, RAM_SIZE - 1) = WORD - 1
    /\ RamWord(asm.program_memory, RAM_SIZE - 1) = 0
\* the program counter k nibbles after the opcode about to be run
PcAfter(k) ==
    [page |-> sim.program_counter.page,
     counter |-> (sim.program_counter.counter + k) % PAGE_SIZE]

\* the offset held in two operand nibbles, the high nibble at operand `hi`
Offset(hi) == Operand(hi + 1) + 16 * Operand(hi)

\* after the step the page cache holds the page of the program counter as
\* the memory has it then
Refilled == sim'.pcache = read_page(sim'.memory, sim'.program_counter.page)

\* C29: CALL, ROMCALL and RAMCALL push the program counter that follows their
\* last operand nibble and go to the target page (the caller's page, the ROM
\* page of the operand, the RAM page at the popped address) and offset, with
\* the page cache refilled from that page; RETURN on a non-empty call stack
\* pops the newest entry, restores exactly that page and offset and refills
\* the cache from the restored page; no other instruction touches the call
\* stack or the page, so calls return in last-in-first-out order and a
\* call/return pair leaves the depth as it was
C29_CallReturn ==
    /\ [][Executes(6) =>
              /\ sim'.call_stack = Append(sim.call_stack, PcAfter(3))
              /\ sim'.program_counter = [page |-> sim.program_counter.page, counter |-> Offset(1)]
              /\ Refilled]_vars
    /\ [][Executes(12) =>
              /\ sim'.call_stack = Append(sim.call_stack, PcAfter(4))
              /\ sim'.program_counter = [page |-> Rom(Operand(1)), counter |-> Offset(2)]
              /\ Refilled]_vars
    /\ [][Executes(13) =>
              /\ sim'.call_stack = Append(sim.call_stack, PcAfter(3))
              /\ sim'.program_counter = [page |-> Ram(Top(sim.data_stack)), counter |-> Offset(1)]
              /\ sim'.data_stack = Front(sim.data_stack)
              /\ Refilled]_vars
    /\ [][(Executes(7) /\ sim.call_stack # <<>>) =>
              /\ sim'.program_counter = sim.call_stack[Len(sim.call_stack)]
              /\ sim'.call_stack = Front(sim.call_stack)
              /\ Refilled]_vars
    /\ [][(sim.live /\ sim'.live /\ ~(Executes(6) \/ Executes(7) \/ Executes(12) \/ Executes(13))) =>
              /\ sim'.call_stack = sim.call_stack
              /\ sim'.program_counter.page = sim.program_counter.page]_vars
    /\ []((gen.mode = "call" /\ sim.ret = "Finish") =>
              /\ sim.call_stack = <<>>
              /\ sim.program_counter.page = Rom(0)
              /\ sim.last_op = 7)

\* a RETURN from ROM page 0 has gone back into the RAM page at word 1, two
\* calls deep
C29_ReturnIntoRamPage ==
    /\ gen.mode = "call"
    /\ sim.last_op = 7
    /\ sim.program_counter.page = Ram(1)
    /\ Len(sim.call_stack) = 2
    /\ sim.call_stack[2].page = Rom(1)
    /\ read_pcache(sim) = 0
\* the path written after the OUTPUT opcode about to be run: the digits from
\* operand k up to the one with bit 3 set
RECURSIVE PathFrom(_)
PathFrom(k) ==
    IF Operand(k) >= 8 \/ k >= PAGE_SIZE THEN <<Operand(k) % 8>>
    ELSE <<Operand(k)>> \o PathFrom(k + 1)

\* the values of a sequence of outputs
OutValues(out) == [i \in 1..Len(out) |-> out[i].v]

\* this step is a push by the other thread
Pushes1 == gen'.inputs = gen.inputs + 1

\* C23: a push appends its value to the tail of the input queue and changes
\* nothing else; INPUT takes the head of the queue; apart from READ/READPOP no
\* other step changes the queue; so the values are taken in the order of
\* the pushes, none lost and none twice, wherever the pushes fall between the
\* steps: in the program that sends out every value it takes, the outputs,
\* then the data stack, then the queue are always the pushed values in
\* order.  OUTPUT appends one output (its path and the popped value) behind
\* the earlier ones and no other step changes the outputs
C23_FifoOrder ==
    /\ []((gen.mode = "io" /\ sim.live) =>
              OutValues(sim.output) \o sim.data_stack \o sim.input_queue = gen.pushed)
    /\ []((gen.mode = "io" /\ sim.live) =>
              \A i \in 1..Len(sim.output) :
                  sim.output[i].octs = <<<<0>>, <<7, 1>>, <<2>>>>[i])
    /\ [][(sim.live /\ Pushes1) =>
              sim' = [sim EXCEPT !.input_queue = Append(@, gen'.pushed[Len(gen'.pushed)])]]_vars
    /\ [][InputTaken => /\ sim.input_queue # <<>>
                        /\ sim'.input_queue = Tail(sim.input_queue)
                        /\ sim'.data_stack = Append(sim.data_stack, Head(sim.input_queue))
                        /\ sim'.output = sim.output]_vars
    /\ [][(sim.live /\ sim'.live /\ ~Pushes1 /\ ~InputTaken
             /\ ~(Executes(10) /\ Operand(1) \in {2, 3})) =>
              sim'.input_queue = sim.input_queue]_vars
    /\ [][(sim.live /\ sim'.live) =>
              IF Executes(15)
              THEN sim'.output = Append(sim.output, [octs |-> PathFrom(1), v |-> Top(sim.data_stack)])
              ELSE sim'.output = sim.output]_vars

\* three values were pushed and the program has ended with all three sent
\* out in the order of the pushes
C23_ThreeTakenInOrder ==
    /\ gen.mode = "io"
    /\ sim.ret = "Finish"
    /\ gen.pushed = <<0, WORD - 1, 0>>
    /\ OutValues(sim.output) = <<0, WORD - 1, 0>>
    /\ sim.input_queue = <<>>
(***************************************************************************)
(* SpecThread: the run thread of the multithreaded driver with its batches  *)
(* and its stop flag, the single-threaded driver, and the UI thread that    *)
(* looks at the simulator.  drv.stop is the shared stop flag, drv.batch the *)
(* number of passes the `for i in 0..n` loop still has to make (0: the      *)
(* thread is at `while !*stop.lock().unwrap()`), drv.seen is <<v>> when the *)
(* last getter returned v.                                                  *)
(***************************************************************************)
\* INPUT with nothing to take unless another thread pushes
InputText == <<RomPg(0), Nop, In, Ret>>
\* a program that never ends
LoopText == <<RomPg(0), Lbl("f"), Nop, Cmd("Jump", 0, 0, "f")>>
\* a program that ends
HaltText == <<RomPg(0), Val(3), Ret>>

ThreadTexts == [input |-> {InputText}, loop |-> {LoopText}, halt |-> {HaltText}]

\* the head of the `while` loop of the run thread: the stop flag is read;
\* when it is set the closure returns Killed, otherwise n is computed
thread_loop(d, n) ==
    IF d.stop THEN [d EXCEPT !.run_thread = "returned", !.thread_result = Some("Killed")]
    ELSE [d EXCEPT !.batch = n]

\* the run thread is at the head of its loop; n depends on the clock and on
\* the Step button (one_step adds 1 to instructions_to_do)
ThreadLoop ==
    \E n \in 0..MaxBatch :
        /\ sim.live
        /\ sim.loc = "idle"
        /\ drv.kind = "multi"
        /\ drv.run_thread = "running"
        /\ drv.batch = 0
        /\ drv' = thread_loop(drv, n)
        /\ UNCHANGED <<gen, asm, sim, alu, lay>>

\* one pass of the `for` loop: step is called under the simulator's lock
ThreadBatchStep ==
    /\ sim.live
    /\ sim.loc = "idle"
    /\ drv.kind = "multi"
    /\ drv.run_thread = "running"
    /\ drv.batch > 0
    /\ sim' = thread_step(sim, drv).sim
    /\ drv' = [thread_step(sim, drv).drv EXCEPT !.batch = @ - 1]
    /\ UNCHANGED <<gen, asm, alu, lay>>

\* impl Drop for SimulatorState
Drop ==
    /\ drv.kind = "multi"
    /\ ~drv.stop
    /\ drv' = [drv EXCEPT !.stop = TRUE]
    /\ UNCHANGED <<gen, asm, sim, alu, lay>>

\* the lock is given up while INPUT sleeps
simulator_lock_released_in_step(s, d) == FALSE

\* simulator.lock().unwrap().step(..): the run thread holds the lock of the
\* simulator from before step is entered until it has returned
simulator_lock_held(s, d) == d.kind = "multi" /\ s.loc # "idle"

\* get_pc, get_data_stack, get_reg and get_memory: what they return
snapshot(s) ==
    [pc |-> s.program_counter, data_stack |-> s.data_stack, registers |-> s.registers,
     memory |-> s.memory, loc |-> s.loc]

\* the UI thread calls the getters of the driver: lock, copy, unlock.  With
\* the single-threaded driver the UI thread is the one that calls step
Observe ==
    /\ sim.live
    /\ drv.kind # "none"
    /\ ~simulator_lock_held(sim, drv)
    /\ drv.kind = "single" => sim.loc = "idle"
    /\ drv' = [drv EXCEPT !.seen = <<snapshot(sim)>>]
    /\ UNCHANGED <<gen, asm, sim, alu, lay>>

InitThread ==
    /\ \E mode \in DOMAIN ThreadTexts : \E text \in ThreadTexts[mode] :
           gen = [mode |-> mode, stage |-> "text", n |-> Len(text), src |-> text,
                  inputs |-> 0, labels |-> {}, pushed |-> <<>>]
    /\ asm = compile_blank(EmptyFn)
    /\ sim = NoSimulator
    /\ alu = NoAlu
    /\ lay = NoLayout
    /\ drv = NoDriver

NextThread ==
    \/ Assemble
    \/ NewDriver
    \/ OneStep
    \/ ThreadLoop
    \/ ThreadBatchStep
    \/ StepInputLoop
    \/ ThreadExit
    \/ Drop
    \/ EndState
    \/ Observe
    \/ IoPush

\* the run thread is scheduled again and again; nothing makes another thread
\* push an input
SpecThread ==
    /\ InitThread
    /\ [][NextThread]_vars
    /\ WF_vars(ThreadLoop)
    /\ WF_vars(ThreadBatchStep)
    /\ WF_vars(StepInputLoop)
    /\ WF_vars(ThreadExit)

\* the run thread has ended
ThreadEnded == drv.run_thread \in {"returned", "finished", "none"}

\* C21: once the stop flag is set the run thread starts no new batch: at the
\* head of its loop it returns Killed; and it ends, with Killed unless the
\* program ended first, also when the program waits for an input that never
\* arrives
C21_StopEndsThread ==
    /\ [][~(drv.kind = "multi" /\ drv.stop /\ drv.batch = 0 /\ drv'.batch # 0)]_vars
    /\ (drv.kind = "multi" /\ drv.stop) ~> ThreadEnded

\* the stop flag is set while the run thread sleeps inside step, in the loop
\* of INPUT, with nothing in the input queue
C21_StoppedWhileWaiting ==
    /\ drv.kind = "multi"
    /\ drv.stop
    /\ drv.run_thread = "running"
    /\ sim.loc = "input_loop"
    /\ sim.input_queue = <<>>

\* programs without INPUT: the stopped run thread ends, with Killed when the
\* flag was set at the head of the loop
StopEndsThreadWithoutInput ==
    /\ (drv.kind = "multi" /\ drv.stop /\ gen.mode # "input") ~> ThreadEnded
    /\ [][(drv.kind = "multi" /\ drv.stop /\ drv.batch = 0 /\ drv.run_thread = "running"
             /\ drv' # drv /\ drv'.seen = drv.seen /\ drv'.queried = drv.queried) =>
              drv'.thread_result = Some("Killed")]_vars
\* C24: what get_pc, get_data_stack, get_reg and get_memory return is the
\* state of the simulator between two calls of step (no call of step is
\* under way when the copy is made, because the run thread holds the lock
\* for the whole call, the wait of INPUT included), it is the state at the
\* time of the call, and the call leaves the simulator as it is
C24_ObserverSeesBoundary ==
    /\ [](drv.seen # <<>> => drv.seen[1].loc = "idle")
    /\ [][drv'.seen # drv.seen =>
              /\ sim' = sim
              /\ sim.loc = "idle"
              /\ drv'.seen = <<snapshot(sim)>>]_vars

\* the UI thread has looked at the simulator of the multithreaded driver
\* after INPUT has taken the value 65535 that it had to wait for
C24_SeenAfterInput ==
    /\ gen.mode = "input"
    /\ drv.kind = "multi"
    /\ drv.seen # <<>>
    /\ drv.seen[1].data_stack = <<WORD - 1>>
    /\ drv.seen[1].pc.counter = 2
    /\ sim.ret = "Finish"
(***************************************************************************)
(* SpecBackpressure: a program that sends outputs for ever is run by either *)
(* driver while the consumer of the outputs takes them or not.  sim.output *)
(* is the output queue.                                                     *)
(***************************************************************************)
OutLoopText == <<RomPg(0), Lbl("f"), Out(<<0>>), Cmd("Jump", 0, 0, "f")>>

\* the `while` loop of singlethreaded process: k calls of one_step
RECURSIVE one_steps(_, _, _)
one_steps(s, d, k) ==
    IF k = 0 THEN [sim |-> s, drv |-> d]
    ELSE TheOne({one_steps(r.sim, r.drv, k - 1) : r \in {single_one_step(s, d)}})

\* singlethreaded SimulatorState::process, with k instructions to do in the
\* time it is given
process(s, d, k) ==
    IF Len(s.output) >= OUTPUT_LIMIT THEN [sim |-> s, drv |-> d]
    ELSE one_steps(s, d, k)

\* the queue may grow MaxOver entries past the limit
Room == Len(sim.output) < OUTPUT_LIMIT + MaxOver

\* update calls process
Process ==
    \E k \in 1..MaxBatch :
        /\ sim.live
        /\ sim.loc = "idle"
        /\ drv.kind = "single"
        /\ Room
        /\ \E r \in {process(sim, drv, k)} :
               /\ sim' = r.sim
               /\ drv' = r.drv
        /\ UNCHANGED <<gen, asm, alu, lay>>

\* the Step button: one_step
StepButton == Room /\ OneStep

\* the run thread makes one pass of its `for` loop
ThreadPass == Room /\ ThreadBatchStep

\* the consumer takes every output that is queued
Drain ==
    /\ sim.live
    /\ sim.output # <<>>
    /\ sim' = [sim EXCEPT !.output = <<>>]
    /\ UNCHANGED <<gen, asm, alu, lay, drv>>

InitBackpressure ==
    /\ gen = [mode |-> "outloop", stage |-> "text", n |-> Len(OutLoopText), src |-> OutLoopText,
              inputs |-> 0, labels |-> {}, pushed |-> <<>>]
    /\ asm = compile_blank(EmptyFn)
    /\ sim = NoSimulator
    /\ alu = NoAlu
    /\ lay = NoLayout
    /\ drv = NoDriver

NextBackpressure ==
    \/ Assemble
    \/ NewDriver
    \/ Process
    \/ StepButton
    \/ ThreadLoop
    \/ ThreadPass
    \/ Drain

SpecBackpressure == InitBackpressure /\ [][NextBackpressure]_vars

\* C22: while the output queue holds OUTPUT_LIMIT entries or more, neither
\* driver executes an instruction: the simulator stays as it is, but for
\* outputs taken off the queue
C22_StallsWhenFull ==
    [][(sim.live /\ Len(sim.output) >= OUTPUT_LIMIT) =>
           /\ Len(sim'.output) <= Len(sim.output)
           /\ [sim' EXCEPT !.output = sim.output] = sim]_vars

\* the queue of the multithreaded driver's simulator holds more than
\* OUTPUT_LIMIT entries
C22_QueuePastLimit ==
    /\ drv.kind = "multi"
    /\ Len(sim.output) > OUTPUT_LIMIT

(***************************************************************************)
(* SpecEncode: two OUTPUT lines, each after a VALUE, are assembled by       *)
(* full_compile and run by the simulator; so is an opcode 15 written with   *)
(* raw nibbles, with and without a nibble that ends its path                *)
(***************************************************************************)
EncodeDigits == {0, 5, 7}

\* the paths of 1..MaxPath digits of EncodeDigits
EncodePaths == UNION {[1..n -> EncodeDigits] : n \in 1..MaxPath}

EncodeText(v, p, w, q) == <<RomPg(0), Val(v), Out(p), Val(w), Out(q), Ret>>

EncodeTexts ==
    {EncodeText(v, p, 9, q) : v \in {3, WORD - 1}, p \in EncodePaths, q \in OctPaths}

\* a line of raw nibbles
RawNibbles(ns) == [op |-> "RawNibbles", a |-> Len(ns), b |-> 0, l |-> "", nibbles |-> ns]

\* VALUE v, then opcode 15 and `tail` as raw nibbles: the rest of the page is
\* not written and reads as 0
WrapText(v, tail) == <<RomPg(0), Val(v), RawNibbles(<<15>> \o tail)>>

\* tails without a nibble that has bit 3 (the RETURN opcode and digits) and
\* tails with one, followed by RETURN
WrapTexts ==
    {WrapText(v, tail) : v \in {0, 4660, 30583},
                         tail \in {<<7>>, <<7, 5>>, <<7, 0, 3>>, <<2, 9, 7>>, <<8, 7>>}}

InitEncode ==
    /\ \E mode \in {"encode", "wrap"} :
           \E text \in (IF mode = "encode" THEN EncodeTexts ELSE WrapTexts) :
               gen = [mode |-> mode, stage |-> "text", n |-> Len(text), src |-> text,
                      inputs |-> 0, labels |-> {}, pushed |-> <<>>]
    /\ asm = compile_blank(EmptyFn)
    /\ sim = NoSimulator
    /\ alu = NoAlu
    /\ lay = NoLayout
    /\ drv = NoDriver

NextEncode ==
    \/ Assemble
    \/ Load
    \/ RunStep

SpecEncode == InitEncode /\ [][NextEncode]_vars

\* the number of nibbles of the lines 2..k of the text: 5 for a VALUE, one
\* more than the digits of the path for an OUTPUT
RECURSIVE EncodeOffset(_)
EncodeOffset(k) ==
    IF k < 2 THEN 0
    ELSE EncodeOffset(k - 1) + (IF gen.src[k].op = "Output" THEN Len(gen.src[k].octs) + 1 ELSE 5)

\* C31: running the nibbles assembled for `OUTPUT d1..dn` calls the output
\* target with exactly the path <<d1, ..., dn>> of the source line and the
\* word popped from the data stack (the word of the VALUE before it), and
\* leaves the program counter n + 1 nibbles after the opcode, where the
\* opcode of the next line of the source is fetched.
C31_OutputRoundTrip ==
    (gen.mode = "encode" /\ sim.live) =>
        /\ Len(sim.output) <= 2
        /\ Len(sim.output) >= 1 => sim.output[1] = [octs |-> gen.src[3].octs, v |-> gen.src[2].a]
        /\ Len(sim.output) = 2 => sim.output[2] = [octs |-> gen.src[5].octs, v |-> gen.src[4].a]
        /\ (sim.last_op = 15 /\ Len(sim.output) = 1) =>
               /\ sim.program_counter = [page |-> Rom(0), counter |-> EncodeOffset(3)]
               /\ read_pcache(sim) = 1
               /\ sim.data_stack = <<>>
        /\ (sim.last_op = 15 /\ Len(sim.output) = 2) =>
               /\ sim.program_counter = [page |-> Rom(0), counter |-> EncodeOffset(5)]
               /\ read_pcache(sim) = 7
               /\ sim.data_stack = <<>>
        /\ (sim.last_op = 1 /\ Len(sim.output) = 1) =>
               /\ sim.program_counter = [page |-> Rom(0), counter |-> EncodeOffset(4)]
               /\ read_pcache(sim) = 15
               /\ sim.data_stack = <<gen.src[4].a>>

\* both OUTPUT lines have run: the first with the path 7 0 5 and the word
\* WORD - 1, the second with a path of one digit
C31_ThreeDigitsDelivered ==
    /\ gen.mode = "encode"
    /\ sim.live
    /\ sim.ret = "Finish"
    /\ sim.output[1] = [octs |-> <<7, 0, 5>>, v |-> WORD - 1]
    /\ Len(sim.output[2].octs) = 1

(***************************************************************************)
(* SpecSnapshot: one ROM section of up to MaxSnapLines lines that set, save *)
(* and use the flags, in every order, is assembled line by line             *)
(***************************************************************************)
InitSnapshot ==
    /\ gen = Reader("snapshot", {"a"})
    /\ asm = compile_blank([l \in {"a"} |-> Rom(0)])
    /\ sim = NoSimulator
    /\ alu = NoAlu
    /\ lay = NoLayout
    /\ drv = NoDriver

NextSnapshot ==
    \/ LineRomPage
    \/ LinePass
    \/ LineValue
    \/ LineAdd
    \/ LineUseFlags
    \/ LineBranch
    \/ LineLabel
    \/ LineCall
    \/ LineJump
    \/ LineReturn

SpecSnapshot == InitSnapshot /\ [][NextSnapshot]_vars

\* the lines i of the source with lo <= i <= hi and an op of `ops`
LinesIn(lo, hi, ops) == {i \in lo..hi : i \in 1..Len(gen.src) /\ gen.src[i].op \in ops}

\* the last line of the source read so far is a BRANCH
BranchRead ==
    /\ gen.mode = "snapshot"
    /\ gen.src # <<>>
    /\ gen.src[Len(gen.src)].op = "Branch"

\* the line of the .USEFLAGS whose snapshot is pending when line k is read: the
\* last .USEFLAGS before k with no BRANCH after it; 0 when there is none
PendingUseFlags(k) ==
    LET us == {u \in LinesIn(1, k - 1, {"UseFlags"}) : LinesIn(u + 1, k - 1, {"Branch"}) = {}}
    IN  IF us = {} THEN 0 ELSE CHOOSE u \in us : \A v \in us : v <= u

\* the lines that give flags_as_set a source
FlagSources == {"Add", "Label", "Call"}
\* the lines that empty flags_as_set
Unreachables == {"Jump", "Return"}

\* flags_as_set has no source when line u is read
NoSourceAt(u) ==
    \A i \in LinesIn(2, u - 1, FlagSources) : LinesIn(i + 1, u - 1, Unreachables) # {}

\* the BRANCH just read was rejected with BadUseflagsWithBranch
BranchRejected == asm.result = "Err" /\ asm.error.kind = "BadUseflagsWithBranch"

\* a label or a CALL lies between the pending .USEFLAGS and the BRANCH just read
LabelOrCallSinceSnapshot ==
    /\ BranchRead
    /\ PendingUseFlags(Len(gen.src)) # 0
    /\ LinesIn(PendingUseFlags(Len(gen.src)) + 1, Len(gen.src) - 1, {"Label", "Call"}) # {}

LastCompiled == asm.page_lines[Len(asm.page_lines)]

\* the nibbles the line of the source read last was compiled to
LastLength == LastCompiled.page_end - LastCompiled.page_start

\* C37: when only lines that leave flags_as_set alone (PASS, VALUE) lie
\* between a .USEFLAGS and the next BRANCH of the section, the BRANCH is not
\* rejected with BadUseflagsWithBranch, whatever the number of nibbles between
\* the flag-setting instruction and the BRANCH, and at most 6 PASS nibbles
\* are put before its 4 nibbles; the BRANCH is paired with the .USEFLAGS.
C37_UnchangedSnapshotAccepted ==
    (/\ BranchRead
     /\ PendingUseFlags(Len(gen.src)) # 0
     /\ \A i \in (PendingUseFlags(Len(gen.src)) + 1)..(Len(gen.src) - 1) :
            gen.src[i].op \in {"Pass", "Value"})
        => /\ Running(asm)
           /\ LastCompiled.cmd.op = "Branch"
           /\ LastLength \in 4..(4 + FLAG_DELAY)
           /\ Has(asm.branch_lines, LastCompiled.assembly_line_num)
           /\ asm.page_lines[PendingUseFlags(Len(gen.src)) - 1].assembly_line_num
                  = asm.branch_lines[LastCompiled.assembly_line_num]

\* ADD, .USEFLAGS, PASS and a BRANCH that is accepted with 3 PASS put before
\* its 4 nibbles
C37_BranchPadded ==
    /\ BranchRead
    /\ Running(asm)
    /\ Len(gen.src) = 5
    /\ gen.src[2].op = "Add"
    /\ gen.src[3].op = "UseFlags"
    /\ gen.src[4].op = "Pass"
    /\ LastLength = 7
    /\ Has(asm.branch_lines, LastCompiled.assembly_line_num)

\* ADD, .USEFLAGS, VALUE, VALUE and a BRANCH that is accepted with no
\* padding, 12 nibbles after the ADD
BranchLongAfterSetter ==
    /\ BranchRead
    /\ Running(asm)
    /\ Len(gen.src) = 6
    /\ gen.src[2].op = "Add"
    /\ gen.src[3].op = "UseFlags"
    /\ gen.src[4].op = "Value"
    /\ gen.src[5].op = "Value"
    /\ LastLength = 4
    /\ Has(asm.branch_lines, LastCompiled.assembly_line_num)

RECURSIVE Increments(_, _)
Increments(s, k) == IF k = 0 THEN s ELSE Increments(increment(s), k - 1)

\* the delay queue after the k nibbles of the instruction about to be run had
\* been fetched with the flags of the next state already in self.flags
Latched(k) == Increments([sim EXCEPT !.flags = sim'.flags], k).flags_delay

\* after the step the newest k entries of the delay queue are the new flags
\* and the older ones are the entries that were k places newer
NewestOverwritten(k) ==
    \A i \in 1..FLAG_DELAY :
        sim'.flags_delay[i] = IF i > FLAG_DELAY - k THEN sim'.flags ELSE sim.flags_delay[i + k]

\* the line compiled last is a flag-setting instruction of opcode `opcode`
SetterCompiled(opcode) ==
    /\ gen.mode = "flags"
    /\ Running(asm)
    /\ asm.page_lines # <<>>
    /\ LastCompiled.cmd.op = (IF opcode = 10 THEN "Alm1" ELSE "Alm2")
    /\ IF opcode = 10 THEN Alm1SetsFlags(LastCompiled.cmd.a) ELSE Alm2SetsFlags(LastCompiled.cmd.a)

\* C33: a flag-setting ALM1 instruction leaves the new flags in the newest 2
\* entries of the delay queue of the simulator and a flag-setting ALM2
\* instruction in the newest 3, the older entries having moved up by as many
\* places: the queue is what it would be had the new flags been in
\* self.flags before the first nibble of the instruction was fetched.  That
\* is where the assembler puts them: after the line, the newest 2 (3)
\* entries of its queue are the flags_as_set assigned at the first nibble of
\* the line.
C33_FlagsLatchedAtFirstNibble ==
    /\ [][(Executes(10) /\ Alm1SetsFlags(Operand(1))) =>
              /\ NewestOverwritten(2)
              /\ sim'.flags_delay = Latched(2)
              /\ sim'.flags = sim'.produced[sim.program_counter.counter]]_vars
    /\ [][(Executes(11) /\ Alm2SetsFlags(Operand(1))) =>
              /\ NewestOverwritten(3)
              /\ sim'.flags_delay = Latched(3)
              /\ sim'.flags = sim'.produced[sim.program_counter.counter]]_vars
    /\ [](\A opcode \in {10, 11} :
              SetterCompiled(opcode) =>
                  /\ asm.flags_as_set =
                         FlagsState(<< <<LastCompiled.page_start, LastCompiled.assembly_line_num>> >>)
                  /\ LastLength = opcode - 8
                  /\ \A i \in 1..(opcode - 8) : asm.flags_delay_queue[i] = asm.flags_as_set)

\* an ALM2 instruction has set flags that differ from the ones before: the
\* newest three entries of the queue are the new flags, the fourth is not
C33_NewFlagsInNewestThree ==
    /\ gen.mode = "flags"
    /\ sim.live
    /\ sim.last_op = 11
    /\ \A i \in 4..6 : sim.flags_delay[i] = sim.flags
    /\ sim.flags_delay[3] # sim.flags

(***************************************************************************)
(* SpecSameRom: two ..ROM 0 sections with a ..ROM 1 section between them    *)
(* are assembled by full_compile and run                                    *)
(***************************************************************************)
\* ..ROM 0: k raw nibbles, VALUE v, .LABEL a, PASS; ..ROM 1: VALUE 9, RETURN;
\* ..ROM 0: VALUE w, JUMP b, .LABEL b, m times PASS, RETURN
SameRomText(k, v, w, m) ==
    <<RomPg(0), Cmd("Raw", k, 0, ""), Val(v), Lbl("a"), Nop,
      RomPg(1), Val(9), Ret,
      RomPg(0), Val(w), Cmd("Jump", 0, 0, "b"), Lbl("b")>>
    \o [i \in 1..m |-> Nop] \o <<Ret>>

\* the raw nibbles leave 16, 15 or 14 nibbles of the page, or nearly all of it
RawLengths == {1, 3} \cup ((PAGE_SIZE - 17)..(PAGE_SIZE - 15))

SameRomTexts ==
    {SameRomText(k, v, w, m) : k \in RawLengths, v \in {4660, WORD - 1}, w \in {1, 43981},
                               m \in 0..MaxTailPass}

InitSameRom ==
    /\ \E text \in SameRomTexts :
           gen = [mode |-> "samerom", stage |-> "text", n |-> Len(text), src |-> text,
                  inputs |-> 0, labels |-> {}, pushed |-> <<>>]
    /\ asm = compile_blank(EmptyFn)
    /\ sim = NoSimulator
    /\ alu = NoAlu
    /\ lay = NoLayout
    /\ drv = NoDriver

NextSameRom ==
    \/ Assemble
    \/ Load
    \/ RunStep

SpecSameRom == InitSameRom /\ [][NextSameRom]_vars

\* the nibbles of the first ..ROM 0 section, of the second, and of both
FirstLength == gen.src[2].a + 6
SecondLength == 8 + (Len(gen.src) - 13) + 1
CombinedLength == FirstLength + SecondLength

\* the nibbles at the offsets o .. o + Len(cells) - 1 of ROM page n of the
\* assembled program are `cells`
RomHolds(n, o, cells) ==
    \A i \in 1..Len(cells) : ProgramMemory_read(asm.program_memory, Rom(n), o + i - 1) = cells[i]

\* C34: the nibbles of two `..ROM 0` sections lie one after the other in
\* page 0 in the order of the source, the first nibble of the second
\* section at the offset after the last nibble of the first; a label of the
\* second section is bound to its offset from the start of the page and a
\* JUMP to it is compiled with that offset; the program is assembled when
\* both sections together have at most 256 nibbles and fails with
\* RomPageFull of page 0 when they have more; the section of page 1 between
\* them starts at offset 0 of its page.  Run, the program falls through
\* from the first section into the second.
C34_SameRomSectionsConcatenate ==
    (gen.mode = "samerom" /\ gen.stage # "text") =>
        LET k == gen.src[2].a
            v == gen.src[3].a
            w == gen.src[10].a
            m == Len(gen.src) - 13
        IN  IF CombinedLength <= PAGE_SIZE
            THEN /\ asm.result = "Ok"
                 /\ RomHolds(0, 0, [i \in 1..k |-> 0])
                 /\ RomHolds(0, k, <<1>> \o Digits4(v) \o <<0>>)
                 /\ RomHolds(0, FirstLength, <<1>> \o Digits4(w))
                 /\ RomHolds(0, FirstLength + 5, <<2>> \o Digits2(FirstLength + 8))
                 /\ RomHolds(0, FirstLength + 8, [i \in 1..m |-> 0] \o <<7>>)
                 /\ asm.labelled_page_locations["a"] = [page |-> Rom(0), ptr |-> k + 5]
                 /\ asm.labelled_page_locations["b"] = [page |-> Rom(0), ptr |-> FirstLength + 8]
                 /\ asm.rom_ptr[0] = IF CombinedLength < PAGE_SIZE THEN Some(CombinedLength) ELSE None
                 /\ RomHolds(1, 0, <<1>> \o Digits4(9) \o <<7>>)
                 /\ asm.rom_ptr[1] = Some(6)
                 /\ Len(asm.rom_lines[0]) = Len(gen.src) - 5
                 /\ \A i \in 2..Len(asm.rom_lines[0]) :
                        asm.rom_lines[0][i].page_start = asm.rom_lines[0][i - 1].page_end
                 /\ (sim.live /\ sim.ret = "Finish") =>
                        /\ sim.data_stack = <<v, w>>
                        /\ sim.program_counter.page = Rom(0)
                        /\ sim.last_op = 7
            ELSE /\ asm.result = "Err"
                 /\ asm.error.kind = "RomPageFull"
                 /\ asm.error.page = 0
                 /\ ~sim.live

\* the two sections fill page 0 exactly, the second one starting at offset
\* 246, and the program has run through both
C34_PageFilledByTwoSections ==
    /\ gen.mode = "samerom"
    /\ CombinedLength = PAGE_SIZE
    /\ FirstLength = PAGE_SIZE - 10
    /\ sim.live
    /\ sim.ret = "Finish"
    /\ sim.data_stack = <<4660, 43981>>

\* the two sections have 257 nibbles and the program is rejected
SameRomTooLong ==
    /\ gen.mode = "samerom"
    /\ gen.stage # "text"
    /\ CombinedLength = PAGE_SIZE + 1
    /\ asm.result = "Err"

(***************************************************************************)
(* Properties of SpecMachine: the page cache                                *)
(***************************************************************************)
\* C35: between two calls of step the page cache holds, at every offset, the
\* nibble the memory holds at that offset of the page of the program
\* counter, also after a WRITE or WRITEPOP into a word of the RAM page that
\* is being run.
C35_CacheAgreesWithMemory ==
    (sim.live /\ sim.loc = "idle") =>
        sim.pcache = read_page(sim.memory, sim.program_counter.page)

\* WRITEPOP has stored 7000 hex in word 4 of the RAM page at word 0 while
\* that page is being run
C35_WroteIntoOwnPage ==
    /\ gen.mode = "selfmod"
    /\ sim.live
    /\ sim.loc = "idle"
    /\ sim.last_op = 11
    /\ sim.program_counter = [page |-> Ram(0), counter |-> 15]
    /\ RamWord(sim.memory, 4) = 7 * 4096
    /\ RamWord(asm.program_memory, 4) = 0

(***************************************************************************)
(* Properties of SpecData: the place of the data words                      *)
(***************************************************************************)
\* the line read last is a line of a data section that emits words
DataWordsEmitted ==
    /\ gen.mode = "data"
    /\ Running(asm)
    /\ asm.section = "Data"
    /\ gen.src # <<>>
    /\ EmittedWords(gen.src[Len(gen.src)]) # <<>>

\* the line of the text that opens the data section
DataLineOf(src) == CHOOSE i \in 1..Len(src) : src[i].op = "Data"

\* C36: every word a data section emits (VALUE, each word of ALLOC) takes the
\* four nibbles of one RAM word: the cursor is at a multiple of 4 after the
\* line as it was before it, and in the assembled program the words of the
\* data section are read back, in their order, at consecutive word
\* addresses.  This is so for a data section at the start of RAM and for
\* one that follows a RAM page whose length is not a multiple of 4 and
\* emits a word before any .LABEL.
C36_DataWordsAligned ==
    /\ DataWordsEmitted =>
           (IsSome(asm.ram_nibble_ptr) => Unwrap(asm.ram_nibble_ptr) % 4 = 0)
    /\ (gen.mode = "data" /\ gen.stage = "assembled" /\ asm.result = "Ok") =>
           LET words == WordsFrom(gen.src, DataLineOf(gen.src) + 1)
           IN  \E W \in 0..4 :
                   \A k \in 1..Len(words) : RamMem_read(asm.program_memory, W + k - 1) = words[k]

\* a data section after a RAM page of 6 nibbles has emitted VALUE 65535 as
\* its first line
C36_ValueAfterShortRamPage ==
    /\ DataWordsEmitted
    /\ gen.src[Len(gen.src)] = Cmd("Value", WORD - 1, 0, "")
    /\ gen.src[Len(gen.src) - 1].op = "Data"
    /\ gen.src[Len(gen.src) - 2] = Cmd("Raw", 6, 0, "")
    /\ gen.src[Len(gen.src) - 3].op = "RamPage"

\* the digits of the output the step has just delivered
PathRead == Len(sim'.output[Len(sim'.output)].octs)

\* C39: a step that fetches opcode 15 ends: its loop reads at least one and
\* at most 256 nibbles, the last of them a nibble with bit 3 set and none
\* before it; when no other nibble of the page has bit 3 the counter has
\* wrapped and that nibble is the opcode 15 itself, 256 nibbles on.  The
\* step delivers one output and leaves the counter after the last nibble
\* read.
C39_OutputTerminates ==
    [][Executes(15) =>
           /\ sim'.live
           /\ sim'.loc = "idle"
           /\ sim'.ret = "Continue"
           /\ Len(sim'.output) = Len(sim.output) + 1
           /\ PathRead \in 1..PAGE_SIZE
           /\ Operand(PathRead) >= 8
           /\ \A i \in 1..(PathRead - 1) : Operand(i) < 8
           /\ \A i \in 1..PathRead :
                  sim'.output[Len(sim'.output)].octs[i] = Operand(i) % 8
           /\ sim'.program_counter = PcAfter(PathRead + 1)]_vars

\* the opcode 15 at offset 5 has read the 255 other nibbles of the page and
\* then itself, and the RETURN after it has been run
C39_WrappedToOwnOpcode ==
    /\ gen.mode = "wrap"
    /\ sim.live
    /\ sim.ret = "Finish"
    /\ Len(sim.output) = 1
    /\ Len(sim.output[1].octs) = PAGE_SIZE
    /\ sim.output[1].octs[PAGE_SIZE] = 7
    /\ sim.output[1].v = 4660
    /\ sim.last_op = 7

(***************************************************************************)
(* SpecPaused: a driver made with instructions_per_second = 0.0 (the speed  *)
(* slider at 0: "Paused") runs a program of PASS lines; the Step button     *)
(* calls one_step while the run thread goes round its loop                  *)
(***************************************************************************)
\* k PASS lines and RETURN
RECURSIVE Passes(_)
Passes(k) == IF k = 0 THEN <<>> ELSE <<Nop>> \o Passes(k - 1)

PausedText(k) == <<RomPg(0)>> \o Passes(k) \o <<Ret>>

PausedTexts == {PausedText(k) : k \in 1..(MaxAsked + 2)}

\* f64::clamp
clamp(x, lo, hi) == IF x < lo THEN lo ELSE IF x > hi THEN hi ELSE x

\* multithreaded SimulatorState::one_step(false)
multi_one_step(d) == [d EXCEPT !.instructions_to_do = @ + 1, !.asked = @ + 1]

\* the head of the `while` loop at rate 0.0, up to the elapsed-time check of
\* the first pass of `for i in 0..n`: dt * 0.0 is added to instructions_to_do,
\* n is its floor (it is whole), n is taken off it and it is clamped; is the
\* clock more than a second past prev_time at i = 0 (`late`), the loop is
\* left with none of the n passes made
thread_loop_paused(d, late) ==
    LET total == d.instructions_to_do + 0
        n == total
        e == [d EXCEPT !.instructions_to_do = clamp(total - n, 0, 1)]
    IN  thread_loop(e, IF late THEN 0 ELSE n)

\* the Step button, shown while end_state() is None and the rate is 0.0
StepAsked ==
    /\ sim.live
    /\ drv.kind = "multi"
    /\ drv.run_thread = "running"
    /\ sim.ret # "Finish"
    /\ drv.asked < MaxAsked
    /\ drv' = multi_one_step(drv)
    /\ UNCHANGED <<gen, asm, sim, alu, lay>>

\* the run thread is at the head of its loop; how long it was kept from
\* running since it read the clock is not in its hands
ThreadLoopPaused ==
    \E late \in BOOLEAN :
        /\ sim.live
        /\ sim.loc = "idle"
        /\ drv.kind = "multi"
        /\ drv.run_thread = "running"
        /\ drv.batch = 0
        /\ drv' = thread_loop_paused(drv, late)
        /\ UNCHANGED <<gen, asm, sim, alu, lay>>

InitPaused ==
    /\ \E text \in PausedTexts :
           gen = [mode |-> "paused", stage |-> "text", n |-> Len(text), src |-> text,
                  inputs |-> 0, labels |-> {}, pushed |-> <<>>]
    /\ asm = compile_blank(EmptyFn)
    /\ sim = NoSimulator
    /\ alu = NoAlu
    /\ lay = NoLayout
    /\ drv = NoDriver

NextPaused ==
    \/ Assemble
    \/ NewDriver
    \/ OneStep
    \/ StepAsked
    \/ ThreadLoopPaused
    \/ ThreadBatchStep
    \/ ThreadExit
    \/ EndState

SpecPaused == InitPaused /\ [][NextPaused]_vars

\* the instructions of a PASS program that have been executed
Executed == sim.program_counter.counter

\* the program of the multithreaded driver has not ended
PausedNotEnded ==
    /\ gen.mode = "paused"
    /\ sim.live
    /\ drv.kind = "multi"
    /\ drv.run_thread = "running"
    /\ sim.ret # "Finish"

\* C40: at rate 0 and with the program not ended, every call of one_step is
\* an instruction executed, an instruction of the batch still to be made or
\* one still counted in instructions_to_do: none is lost and none is made
\* twice, so k calls come to k instructions once the run thread has caught up
C40_EveryStepExecuted ==
    PausedNotEnded => drv.asked = Executed + drv.batch + drv.instructions_to_do

\* one_step was called once, the run thread is back at the head of its loop
\* with nothing left to do, and no instruction has been executed
C40_StepLost ==
    /\ PausedNotEnded
    /\ drv.asked = 1
    /\ drv.batch = 0
    /\ drv.instructions_to_do = 0
    /\ Executed = 0

\* no call is made twice: never more instructions than calls
NoStepDuplicated ==
    PausedNotEnded => Executed + drv.batch + drv.instructions_to_do <= drv.asked

====
